---- MODULE Spec2Model ----
(***************************************************************************)
(* The tree-walking evaluator of the monkey interpreter                     *)
(* (src/src/evaluator/evaluator.go) and the runtime object model it works   *)
(* on (package object).  Eval(Program, env) is modelled as a state machine: *)
(* one step per iteration of evalProgram's loop over the top-level          *)
(* statements; the recursive part of Eval is a recursive operator that      *)
(* threads the store of environments, the allocator and a history of the    *)
(* Eval calls made.  The parser (src/src/parser/parser.go) is a second      *)
(* state machine, ParseSpec, at the end of the module.                      *)
(***************************************************************************)
EXTENDS Integers, Sequences, FiniteSets, TLC

VARIABLES program, pc, result, status, out, st

vars == <<program, pc, result, status, out, st>>

\* the state of a parse (nothing is parsed while a program is evaluated)
VARIABLE parser

IdleParser ==
    [p |-> [tokens |-> <<>>, cur |-> 1, errors |-> <<>>], statements |-> <<>>,
     status |-> "idle"]

\* the state of a Lexer, the tokens its NextToken has returned and
\* l.position after each of these calls (nothing is lexed while a program is
\* evaluated or parsed)
VARIABLE lexer

\* the byte 0
NUL == "NUL"

IdleLexer ==
    [l |-> [input |-> <<>>, position |-> 0, readPosition |-> 0, ch |-> NUL],
     tokens |-> <<>>, positions |-> <<>>, status |-> "idle"]

(***************************************************************************)
(* Bounds of the model.                                                     *)
(***************************************************************************)
\* Deepest nesting of applyFunction calls before the host stack is taken to
\* overflow.
MaxCallDepth == 2

(***************************************************************************)
(* AST nodes (package ast).  Every node is a record with a kind.            *)
(***************************************************************************)
NilNode == [kind |-> "nil"]

IntegerLiteral(v) == [kind |-> "IntegerLiteral", Value |-> v]

FloatLiteral(n, d) == [kind |-> "FloatLiteral", Value |-> [num |-> n, den |-> d]]

StringLiteral(s) == [kind |-> "StringLiteral", Value |-> s]

BooleanLiteral(b) == [kind |-> "Boolean", Value |-> b]

Identifier(name) == [kind |-> "Identifier", Value |-> name]

PrefixExpression(op, right) ==
    [kind |-> "PrefixExpression", Operator |-> op, Right |-> right]

InfixExpression(left, op, right) ==
    [kind |-> "InfixExpression", Left |-> left, Operator |-> op, Right |-> right]

BlockStatement(stmts) == [kind |-> "BlockStatement", Statements |-> stmts]

ElseIfExpression(cond, cons) == [Condition |-> cond, Consequence |-> cons]

\* alt is a BlockStatement or NilNode (no else part)
IfExpression(cond, cons, elseIfs, alt) ==
    [kind |-> "IfExpression", Condition |-> cond, Consequence |-> cons,
     ElseIfs |-> elseIfs, Alternative |-> alt]

FunctionLiteral(params, body) ==
    [kind |-> "FunctionLiteral", Parameters |-> params, Body |-> body]

CallExpression(fn, args) ==
    [kind |-> "CallExpression", Function |-> fn, Arguments |-> args]

ArrayLiteral(elems) == [kind |-> "ArrayLiteral", Elements |-> elems]

IndexExpression(left, index) ==
    [kind |-> "IndexExpression", Left |-> left, Index |-> index]

LetStatement(name, value) ==
    [kind |-> "LetStatement", Name |-> Identifier(name), Value |-> value]

ReturnStatement(value) == [kind |-> "ReturnStatement", ReturnValue |-> value]

ExpressionStatement(e) == [kind |-> "ExpressionStatement", Expression |-> e]

(***************************************************************************)
(* Runtime objects (package object).  An object is a record with its        *)
(* Type(); the objects whose pointer identity the evaluator can observe     *)
(* (Boolean, Null, Array, Function, ReturnValue, Builtin) carry the address *)
(* they were allocated at.  Integer, Float, String and Error objects reach  *)
(* the identity comparison of evalInfixExpression only against an object of *)
(* another type, where two pointers always differ.                          *)
(***************************************************************************)
INTEGER_OBJ == "INTEGER"

FLOAT_OBJ == "FLOAT"

BOOLEAN_OBJ == "BOOLEAN"

NULL_OBJ == "NULL"

RETURN_VALUE_OBJ == "RETURN_VALUE"

ERROR_OBJ == "ERROR"

FUNCTION_OBJ == "FUNCTION"

STRING_OBJ == "STRING"

ARRAY_OBJ == "ARRAY"

BUILTIN_OBJ == "BUILTIN"

\* Go's nil interface value: what Eval returns for a let statement and what
\* an empty block evaluates to.
nil == [type |-> "nil"]

\* The three shared instances NULL, TRUE and FALSE (TRUE and FALSE are
\* reserved words of TLA+, hence the underscore).
NULL == [type |-> NULL_OBJ, addr |-> 1]

TRUE_ == [type |-> BOOLEAN_OBJ, Value |-> TRUE, addr |-> 2]

FALSE_ == [type |-> BOOLEAN_OBJ, Value |-> FALSE, addr |-> 3]

Integer(v) == [type |-> INTEGER_OBJ, Value |-> v]

Float(v) == [type |-> FLOAT_OBJ, Value |-> v]

String(s) == [type |-> STRING_OBJ, Value |-> s]

Error(msg) == [type |-> ERROR_OBJ, Message |-> msg]

\* A Boolean object that is not one of the two shared instances.
Boolean(b, a) == [type |-> BOOLEAN_OBJ, Value |-> b, addr |-> a]

Array(elems, a) == [type |-> ARRAY_OBJ, Elements |-> elems, addr |-> a]

ReturnValue(v, a) == [type |-> RETURN_VALUE_OBJ, Value |-> v, addr |-> a]

Function(params, body, env, a) ==
    [type |-> FUNCTION_OBJ, Parameters |-> params, Body |-> body, Env |-> env,
     addr |-> a]

\* A run-time panic of the Go program (nil dereference, index out of range,
\* integer division by zero, stack exhaustion): it unwinds every caller.
Panic(msg) == [type |-> "PANIC", Message |-> msg]

isPanic(obj) == obj.type = "PANIC"

isNil(obj) == obj.type = "nil"

\* left == right on two interface values holding pointers
SameObject(l, r) ==
    IF isNil(l) \/ isNil(r) THEN isNil(l) /\ isNil(r)
    ELSE IF "addr" \in DOMAIN l /\ "addr" \in DOMAIN r THEN l.addr = r.addr
    ELSE FALSE

(***************************************************************************)
(* Environment: a store and an outer link.  The environments live in a      *)
(* heap (a sequence); a *Environment is an index into it, 0 is nil.         *)
(***************************************************************************)
NewEnvironment == [store |-> <<>>, outer |-> 0]

NewEnclosedEnvironment(outer) == [store |-> <<>>, outer |-> outer]

RECURSIVE Get(_, _, _)
\* (obj, ok) of e.Get(name)
Get(heap, e, name) ==
    IF name \in DOMAIN heap[e].store
    THEN [obj |-> heap[e].store[name], ok |-> TRUE]
    ELSE IF heap[e].outer # 0 THEN Get(heap, heap[e].outer, name)
    ELSE [obj |-> nil, ok |-> FALSE]

\* the heap after e.Set(name, val)
Set(heap, e, name, val) ==
    [heap EXCEPT ![e].store =
        [n \in DOMAIN heap[e].store \cup {name} |->
            IF n = name THEN val ELSE heap[e].store[n]]]

(***************************************************************************)
(* Error helpers.                                                           *)
(***************************************************************************)
isError(obj) == IF isNil(obj) THEN FALSE ELSE obj.type = ERROR_OBJ

newError(msg) == Error(msg)

nativeToBooleanObject(value) == IF value THEN TRUE_ ELSE FALSE_

isTruthy(condition) ==
    IF SameObject(condition, NULL) THEN FALSE
    ELSE IF SameObject(condition, TRUE_) THEN TRUE
    ELSE IF SameObject(condition, FALSE_) THEN FALSE
    ELSE TRUE

(***************************************************************************)
(* Numbers.  An int64 is a two's complement word that wraps on overflow.    *)
(* A float64 is modelled by the rational it holds, num/den in lowest terms  *)
(* with den > 0; den = 0 stands for +Inf (num = 1), -Inf (num = -1) and NaN *)
(* (num = 0).  Rounding and the sign of zero are not modelled.              *)
(***************************************************************************)
Abs(n) == IF n < 0 THEN -n ELSE n

\* Go's int64 is a two's complement word; the model keeps the word and its
\* wrap-around but scales its width down from 64 bits to WordBits bits.
WordBits == 8

MaxInt64 == 2 ^ (WordBits - 1) - 1

MinInt64 == -(2 ^ (WordBits - 1))

\* the int64 an exact integer result is stored as (wraps on overflow)
Int64(n) == ((n - MinInt64) % (2 ^ WordBits)) + MinInt64

Sgn(n) == IF n < 0 THEN -1 ELSE IF n > 0 THEN 1 ELSE 0

RECURSIVE GCD(_, _)
GCD(a, b) == IF b = 0 THEN a ELSE GCD(b, a % b)

\* a quotient rounded toward minus infinity
GoDiv_Floored(a, b) == IF b > 0 THEN a \div b ELSE (-a) \div (-b)

\* Go's integer quotient: truncated toward zero
GoDiv(a, b) ==
    IF (a >= 0) = (b > 0) THEN Abs(a) \div Abs(b) ELSE -(Abs(a) \div Abs(b))

\* Go's integer remainder: has the sign of the dividend
GoMod(a, b) == a - b * GoDiv(a, b)

Rat(n, d) ==
    IF d = 0 THEN [num |-> Sgn(n), den |-> 0]
    ELSE LET g == GCD(Abs(n), Abs(d))
         IN [num |-> Sgn(d) * (n \div g), den |-> Abs(d) \div g]

NaN == [num |-> 0, den |-> 0]

IsNaN(x) == x.den = 0 /\ x.num = 0

IsInf(x) == x.den = 0 /\ x.num # 0

\* float64(i)
IntToFloat(i) == [num |-> i, den |-> 1]

FNeg(x) == [num |-> -x.num, den |-> x.den]

FAdd(x, y) ==
    IF IsNaN(x) \/ IsNaN(y) THEN NaN
    ELSE IF IsInf(x) /\ IsInf(y) THEN (IF x.num = y.num THEN x ELSE NaN)
    ELSE IF IsInf(x) THEN x
    ELSE IF IsInf(y) THEN y
    ELSE Rat(x.num * y.den + y.num * x.den, x.den * y.den)

FSub(x, y) == FAdd(x, FNeg(y))

FMul(x, y) ==
    IF IsNaN(x) \/ IsNaN(y) THEN NaN ELSE Rat(x.num * y.num, x.den * y.den)

FDiv(x, y) ==
    IF IsNaN(x) \/ IsNaN(y) THEN NaN
    ELSE IF IsInf(x)
    THEN (IF IsInf(y) THEN NaN
          ELSE [num |-> x.num * (IF y.num < 0 THEN -1 ELSE 1), den |-> 0])
    ELSE IF IsInf(y) THEN [num |-> 0, den |-> 1]
    ELSE Rat(x.num * y.den, x.den * y.num)

FLess(x, y) ==
    IF IsNaN(x) \/ IsNaN(y) THEN FALSE
    ELSE IF x.den = 0 /\ y.den = 0 THEN x.num < y.num
    ELSE x.num * y.den < y.num * x.den

FEq(x, y) == ~IsNaN(x) /\ ~IsNaN(y) /\ x = y

\* math.Mod(x, y): x - y * trunc(x / y), with the sign of x
FMod(x, y) ==
    IF IsNaN(x) \/ IsNaN(y) \/ IsInf(x) \/ y.num = 0 THEN NaN
    ELSE IF IsInf(y) THEN x
    ELSE LET q == GoDiv(x.num * y.den, x.den * y.num)
         IN FSub(x, FMul(IntToFloat(q), y))

(***************************************************************************)
(* Operators on evaluated operands.  An operator that allocates its result  *)
(* takes the address a the allocator hands out next.                        *)
(***************************************************************************)
unknownOperator(left, operator, right) ==
    newError("unknown operator: " \o left.type \o " " \o operator \o " " \o right.type)

evalIntegerInfixExpression(operator, left, right) ==
    LET leftVal == left.Value
        rightVal == right.Value
    IN CASE operator = "+" -> Integer(Int64(leftVal + rightVal))
         [] operator = "-" -> Integer(Int64(leftVal - rightVal))
         [] operator = "*" -> Integer(Int64(leftVal * rightVal))
         [] operator = "/" ->
              IF rightVal = 0 THEN Panic("runtime error: integer divide by zero")
              ELSE Integer(Int64(GoDiv(leftVal, rightVal)))
         [] operator = "%" ->
              IF rightVal = 0 THEN Panic("runtime error: integer divide by zero")
              ELSE Integer(Int64(GoMod(leftVal, rightVal)))
         [] operator = "<" -> nativeToBooleanObject(leftVal < rightVal)
         [] operator = ">" -> nativeToBooleanObject(leftVal > rightVal)
         [] operator = "==" -> nativeToBooleanObject(leftVal = rightVal)
         [] operator = "!=" -> nativeToBooleanObject(leftVal # rightVal)
         [] OTHER -> unknownOperator(left, operator, right)

evalFloatInfixExpression(operator, left, right) ==
    LET leftVal == left.Value
        rightVal == right.Value
    IN CASE operator = "+" -> Float(FAdd(leftVal, rightVal))
         [] operator = "-" -> Float(FSub(leftVal, rightVal))
         [] operator = "*" -> Float(FMul(leftVal, rightVal))
         [] operator = "/" -> Float(FDiv(leftVal, rightVal))
         [] operator = "%" -> Float(FMod(leftVal, rightVal))
         [] operator = "<" -> nativeToBooleanObject(FLess(leftVal, rightVal))
         [] operator = ">" -> nativeToBooleanObject(FLess(rightVal, leftVal))
         [] operator = "==" -> nativeToBooleanObject(FEq(leftVal, rightVal))
         [] operator = "!=" -> nativeToBooleanObject(~FEq(leftVal, rightVal))
         [] OTHER -> unknownOperator(left, operator, right)

\* Whichever side holds the Float, the operation is computed as
\* _floatValue op float64(_integerValue).
evalFloatIntegerInfixExpression(operator, left, right) ==
    LET leftIsFloat == left.type = FLOAT_OBJ
        floatValue == IF leftIsFloat THEN left.Value ELSE right.Value
        integerValue ==
            IntToFloat(IF leftIsFloat THEN right.Value ELSE left.Value)
    IN CASE operator = "+" -> Float(FAdd(floatValue, integerValue))
         [] operator = "-" -> Float(FSub(floatValue, integerValue))
         [] operator = "*" -> Float(FMul(floatValue, integerValue))
         [] operator = "/" -> Float(FDiv(floatValue, integerValue))
         [] operator = "%" -> Float(FMod(floatValue, integerValue))
         [] operator = "<" -> nativeToBooleanObject(FLess(floatValue, integerValue))
         [] operator = ">" -> nativeToBooleanObject(FLess(integerValue, floatValue))
         [] operator = "==" -> nativeToBooleanObject(FEq(floatValue, integerValue))
         [] operator = "!=" -> nativeToBooleanObject(~FEq(floatValue, integerValue))
         [] OTHER -> unknownOperator(left, operator, right)

\* "==" builds a new Boolean object instead of using TRUE / FALSE
evalStringInfixExpression(operator, left, right, a) ==
    LET leftVal == left.Value
        rightVal == right.Value
    IN CASE operator = "==" -> Boolean(leftVal = rightVal, a)
         [] operator = "+" -> String(leftVal \o rightVal)
         [] OTHER -> unknownOperator(left, operator, right)

\* The switch evaluates left.Type() first, and right.Type() only in a case
\* whose left half holds: a nil operand panics where its Type() is called.
evalInfixExpression(operator, left, right, a) ==
    IF isNil(left) THEN Panic("runtime error: nil pointer dereference")
    ELSE IF left.type \in {INTEGER_OBJ, FLOAT_OBJ, STRING_OBJ} /\ isNil(right)
    THEN Panic("runtime error: nil pointer dereference")
    ELSE IF left.type = INTEGER_OBJ /\ right.type = INTEGER_OBJ
    THEN evalIntegerInfixExpression(operator, left, right)
    ELSE IF left.type = FLOAT_OBJ /\ right.type = FLOAT_OBJ
    THEN evalFloatInfixExpression(operator, left, right)
    ELSE IF \/ left.type = FLOAT_OBJ /\ right.type = INTEGER_OBJ
            \/ left.type = INTEGER_OBJ /\ right.type = FLOAT_OBJ
    THEN evalFloatIntegerInfixExpression(operator, left, right)
    ELSE IF left.type = STRING_OBJ /\ right.type = STRING_OBJ
    THEN evalStringInfixExpression(operator, left, right, a)
    ELSE IF operator = "==" THEN nativeToBooleanObject(SameObject(left, right))
    ELSE IF operator = "!=" THEN nativeToBooleanObject(~SameObject(left, right))
    ELSE IF isNil(right) THEN Panic("runtime error: nil pointer dereference")
    ELSE IF left.type # right.type
    THEN newError("type mismatch: " \o left.type \o " " \o operator \o " " \o right.type)
    ELSE unknownOperator(left, operator, right)

evalBangOperatorExpression(right) ==
    IF SameObject(right, TRUE_) THEN FALSE_
    ELSE IF SameObject(right, FALSE_) THEN TRUE_
    ELSE IF SameObject(right, NULL) THEN TRUE_
    ELSE FALSE_

evalMinusPrefixOperator(right) ==
    IF isNil(right) THEN Panic("runtime error: nil pointer dereference")
    ELSE IF right.type = INTEGER_OBJ THEN Integer(Int64(-right.Value))
    ELSE IF right.type = FLOAT_OBJ THEN Float(FNeg(right.Value))
    ELSE newError("unknown operator: -" \o right.type)

evalPrefixExpression(operator, right) ==
    IF operator = "!" THEN evalBangOperatorExpression(right)
    ELSE IF operator = "-" THEN evalMinusPrefixOperator(right)
    ELSE IF isNil(right) THEN Panic("runtime error: nil pointer dereference")
    ELSE newError("unknown operator: " \o operator \o right.type)

\* Mutant of evalArrayIndexExpression: the last element counts as out of
\* range.
evalArrayIndexExpression_OffByOne(array, index) ==
    LET idx == index.Value
        max == Len(array.Elements) - 1
    IN IF idx < 0 \/ idx >= max THEN NULL ELSE array.Elements[idx + 1]

evalArrayIndexExpression(array, index) ==
    LET idx == index.Value
        max == Len(array.Elements) - 1
    IN IF idx < 0 \/ idx > max THEN NULL ELSE array.Elements[idx + 1]

evalIndexExpression(left, index) ==
    IF isNil(left) THEN Panic("runtime error: nil pointer dereference")
    ELSE IF left.type = ARRAY_OBJ /\ isNil(index)
    THEN Panic("runtime error: nil pointer dereference")
    ELSE IF left.type = ARRAY_OBJ /\ index.type = INTEGER_OBJ
    THEN evalArrayIndexExpression(left, index)
    ELSE newError("index operator not supported: " \o left.type)

unwrapReturnValue(obj) ==
    IF ~isNil(obj) /\ obj.type = RETURN_VALUE_OBJ THEN obj.Value ELSE obj

(***************************************************************************)
(* The builtin table.                                                       *)
(***************************************************************************)
Builtin(name, a) == [type |-> BUILTIN_OBJ, Name |-> name, addr |-> a]

builtins ==
    [len |-> Builtin("len", 4), first |-> Builtin("first", 5),
     last |-> Builtin("last", 6)]

\* The backquote character of the len message, which a TLA+ string cannot
\* hold.
BQ == "{backquote}"

builtinLen(args) ==
    IF Len(args) # 1
    THEN newError("wrong number of arguments. got=" \o ToString(Len(args))
                  \o ", expected=1")
    ELSE IF isNil(args[1]) THEN Panic("runtime error: nil pointer dereference")
    ELSE IF args[1].type = ARRAY_OBJ THEN Integer(Len(args[1].Elements))
    ELSE IF args[1].type = STRING_OBJ THEN Integer(Len(args[1].Value))
    ELSE newError("argument to " \o BQ \o "len" \o BQ \o " not supported, got "
                  \o args[1].type)

builtinFirst(args) ==
    IF Len(args) # 1
    THEN newError("wrong number of arguments.\nexpected=1, got="
                  \o ToString(Len(args)))
    ELSE IF isNil(args[1]) THEN Panic("runtime error: nil pointer dereference")
    ELSE IF args[1].type # ARRAY_OBJ
    THEN newError("argument to \"first\" must be an ARRAY type.\ngot "
                  \o args[1].type)
    ELSE IF Len(args[1].Elements) > 0 THEN args[1].Elements[1]
    ELSE NULL

builtinLast(args) ==
    IF Len(args) # 1
    THEN newError("wrong number of arguments.\nexpected=1, got="
                  \o ToString(Len(args)))
    ELSE IF isNil(args[1]) THEN Panic("runtime error: nil pointer dereference")
    ELSE IF args[1].type # ARRAY_OBJ
    THEN newError("argument to \"last\" must be an ARRAY type.\ngot "
                  \o args[1].type)
    ELSE IF Len(args[1].Elements) > 0
    THEN args[1].Elements[Len(args[1].Elements)]
    ELSE NULL

\* fn.Fn(args...)
callBuiltin(fn, args) ==
    CASE fn.Name = "len" -> builtinLen(args)
      [] fn.Name = "first" -> builtinFirst(args)
      [] fn.Name = "last" -> builtinLast(args)

\* Mutant of evalIdentifier: the builtin table is consulted before the
\* environment.
evalIdentifier_BuiltinsFirst(node, env, heap) ==
    LET got == Get(heap, env, node.Value)
    IN IF node.Value \in DOMAIN builtins THEN builtins[node.Value]
       ELSE IF got.ok THEN got.obj
       ELSE newError("identifier not found: " \o node.Value)

evalIdentifier(node, env, heap) ==
    LET got == Get(heap, env, node.Value)
    IN IF got.ok THEN got.obj
       ELSE IF node.Value \in DOMAIN builtins THEN builtins[node.Value]
       ELSE newError("identifier not found: " \o node.Value)

(***************************************************************************)
(* Eval.  The evaluation state s threaded through a call is                 *)
(*   heap  the environments allocated so far (heap[1] is the environment    *)
(*         the caller handed to Eval),                                      *)
(*   next  the address the allocator hands out next,                        *)
(*   log   the history of the evaluation: an "enter" entry for every call   *)
(*         of Eval, an "exit" entry for every call that returned (with the  *)
(*         heap at its entry and at its return), an "apply" entry for every *)
(*         function body entered (with the heap before and after            *)
(*         extendFunctionEnv); every entry has the positions of the enter   *)
(*         entries of the calls of Eval open when it was written,           *)
(*   open  the positions of the enter entries of the calls of Eval that     *)
(*         are open.                                                        *)
(* An operator returns the object and the state after it.  d is the number  *)
(* of applyFunction calls on the stack.                                     *)
(***************************************************************************)
Ret(v, s) == [val |-> v, st |-> s]

alloc(s) == [s EXCEPT !.next = @ + 1]

logEnter(s, node, env, d) ==
    [s EXCEPT !.log =
                Append(@, [e |-> "enter", node |-> node, env |-> env,
                           frame |-> d, open |-> s.open]),
              !.open = Append(@, Len(s.log) + 1)]

logExit(s, node, env, d, val, heap0) ==
    LET outer == SubSeq(s.open, 1, Len(s.open) - 1)
    IN [s EXCEPT !.log =
                    Append(@, [e |-> "exit", node |-> node, env |-> env,
                               frame |-> d, open |-> outer,
                               enter |-> s.open[Len(s.open)], val |-> val,
                               heap0 |-> heap0, heap |-> s.heap]),
                 !.open = outer]

logApply(s, fn, args, env, d, heap0) ==
    [s EXCEPT !.log =
        Append(@, [e |-> "apply", fn |-> fn, args |-> args, env |-> env,
                   frame |-> d, open |-> s.open, heap0 |-> heap0,
                   heap |-> s.heap])]

RECURSIVE Eval(_, _, _, _)
RECURSIVE evalBlockFrom(_, _, _, _, _, _)
RECURSIVE evalElseIfs(_, _, _, _, _)
RECURSIVE evalExpressionFrom(_, _, _, _, _, _)
RECURSIVE applyFunction(_, _, _, _)
RECURSIVE bindParams(_, _, _, _, _)

\* the loop of extendFunctionEnv from parameter i on; args[paramIdx] is out
\* of range when the call has fewer arguments than the function parameters
bindParams(heap, env, params, args, i) ==
    IF i > Len(params) THEN [ok |-> TRUE, heap |-> heap]
    ELSE IF i > Len(args) THEN [ok |-> FALSE, heap |-> heap]
    ELSE bindParams(Set(heap, env, params[i].Value, args[i]), env, params, args,
                    i + 1)

\* Mutant of extendFunctionEnv: the new environment is enclosed in the
\* environment created last (that of the running call) and not in fn.Env.
extendFunctionEnv_DynamicScope(fn, args, heap) ==
    LET heap1 == Append(heap, NewEnclosedEnvironment(Len(heap)))
        env == Len(heap1)
        bound == bindParams(heap1, env, fn.Parameters, args, 1)
    IN [ok |-> bound.ok, env |-> env, heap |-> bound.heap]

\* Mutant of extendFunctionEnv: no environment is created, the parameters
\* are bound in fn.Env.
extendFunctionEnv_NoNewEnv(fn, args, heap) ==
    LET bound == bindParams(heap, fn.Env, fn.Parameters, args, 1)
    IN [ok |-> bound.ok, env |-> fn.Env, heap |-> bound.heap]

\* (ok, env, heap): the new environment and the heap that holds it
extendFunctionEnv(fn, args, heap) ==
    LET heap1 == Append(heap, NewEnclosedEnvironment(fn.Env))
        env == Len(heap1)
        bound == bindParams(heap1, env, fn.Parameters, args, 1)
    IN [ok |-> bound.ok, env |-> env, heap |-> bound.heap]

applyFunction(fn, args, s, d) ==
    LET ext == extendFunctionEnv(fn, args, s.heap)
        s1 == logApply([s EXCEPT !.heap = ext.heap], fn, args, ext.env, d + 1,
                       s.heap)
        evaluated == Eval(fn.Body, ext.env, s1, d + 1)
    IN CASE isNil(fn) -> Ret(Panic("runtime error: nil pointer dereference"), s)
         [] fn.type = FUNCTION_OBJ /\ ~ext.ok ->
              Ret(Panic("runtime error: index out of range"), s)
         [] fn.type = FUNCTION_OBJ /\ ext.ok /\ d + 1 > MaxCallDepth ->
              Ret(Panic("stack overflow"), s)
         [] fn.type = FUNCTION_OBJ /\ ext.ok /\ d + 1 <= MaxCallDepth ->
              Ret(unwrapReturnValue(evaluated.val), evaluated.st)
         [] fn.type = BUILTIN_OBJ -> Ret(callBuiltin(fn, args), s)
         [] OTHER -> Ret(newError("not a function: " \o fn.type), s)

\* evalExpression from expression i on, acc the objects evaluated so far;
\* list is the slice returned
evalExpressionFrom(expression, i, acc, env, s, d) ==
    IF i > Len(expression) THEN [val |-> nil, list |-> acc, st |-> s]
    ELSE LET evaluated == Eval(expression[i], env, s, d)
         IN IF isPanic(evaluated.val)
            THEN [val |-> evaluated.val, list |-> <<>>, st |-> evaluated.st]
            ELSE IF isError(evaluated.val)
            THEN [val |-> nil, list |-> <<evaluated.val>>, st |-> evaluated.st]
            ELSE evalExpressionFrom(expression, i + 1, Append(acc, evaluated.val),
                                    env, evaluated.st, d)

evalExpression(expression, env, s, d) ==
    evalExpressionFrom(expression, 1, <<>>, env, s, d)

\* the loop of evalBlockStatement from statement i on, result the object of
\* the statement before
evalBlockFrom(block, i, result0, env, s, d) ==
    LET r == Eval(block.Statements[i], env, s, d)
    IN CASE i > Len(block.Statements) -> Ret(result0, s)
         [] i <= Len(block.Statements) /\ isPanic(r.val) -> r
         [] i <= Len(block.Statements) /\ ~isNil(r.val)
                /\ r.val.type \in {RETURN_VALUE_OBJ, ERROR_OBJ} -> r
         [] OTHER -> evalBlockFrom(block, i + 1, r.val, env, r.st, d)

evalBlockStatement(block, env, s, d) == evalBlockFrom(block, 1, nil, env, s, d)

\* the else-if loop of evalIfExpression from clause i on, and what follows it
evalElseIfs(ife, i, env, s, d) ==
    IF i > Len(ife.ElseIfs)
    THEN IF ife.Alternative # NilNode THEN Eval(ife.Alternative, env, s, d)
         ELSE Ret(NULL, s)
    ELSE LET eife == ife.ElseIfs[i]
             condition == Eval(eife.Condition, env, s, d)
         IN IF isPanic(condition.val) THEN condition
            ELSE IF isTruthy(condition.val)
            THEN Eval(eife.Consequence, env, condition.st, d)
            ELSE evalElseIfs(ife, i + 1, env, condition.st, d)

\* Mutant of evalIfExpression: the else-if clauses are passed over.
evalIfExpression_SkipsElseIfs(ife, env, s, d) ==
    LET condition == Eval(ife.Condition, env, s, d)
    IN IF isPanic(condition.val) THEN condition
       ELSE IF isError(condition.val) THEN condition
       ELSE IF isTruthy(condition.val)
       THEN Eval(ife.Consequence, env, condition.st, d)
       ELSE IF ife.Alternative # NilNode
       THEN Eval(ife.Alternative, env, condition.st, d)
       ELSE Ret(NULL, condition.st)

evalIfExpression(ife, env, s, d) ==
    LET condition == Eval(ife.Condition, env, s, d)
    IN IF isPanic(condition.val) THEN condition
       ELSE IF isError(condition.val) THEN condition
       ELSE IF isTruthy(condition.val)
       THEN Eval(ife.Consequence, env, condition.st, d)
       ELSE IF Len(ife.ElseIfs) > 0 THEN evalElseIfs(ife, 1, env, condition.st, d)
       ELSE IF ife.Alternative # NilNode
       THEN Eval(ife.Alternative, env, condition.st, d)
       ELSE Ret(NULL, condition.st)

evalPrefixNode(node, env, s, d) ==
    LET right == Eval(node.Right, env, s, d)
    IN IF isPanic(right.val) \/ isError(right.val) THEN right
       ELSE Ret(evalPrefixExpression(node.Operator, right.val), right.st)

evalInfixNode(node, env, s, d) ==
    LET left == Eval(node.Left, env, s, d)
    IN IF isPanic(left.val) \/ isError(left.val) THEN left
       ELSE LET right == Eval(node.Right, env, left.st, d)
            IN IF isPanic(right.val) \/ isError(right.val) THEN right
               ELSE Ret(evalInfixExpression(node.Operator, left.val, right.val,
                                            right.st.next),
                        alloc(right.st))

evalReturnStatement(node, env, s, d) ==
    LET val == Eval(node.ReturnValue, env, s, d)
    IN IF isPanic(val.val) \/ isError(val.val) THEN val
       ELSE Ret(ReturnValue(val.val, val.st.next), alloc(val.st))

\* Mutant of evalLetStatement: the name is bound before the value is tested
\* for an Error.
evalLetStatement_BindsError(node, env, s, d) ==
    LET val == Eval(node.Value, env, s, d)
        bound == [val.st EXCEPT !.heap = Set(@, env, node.Name.Value, val.val)]
    IN IF isPanic(val.val) THEN val
       ELSE IF isError(val.val) THEN Ret(val.val, bound)
       ELSE Ret(nil, bound)

\* env.Set, and then the return nil the switch falls through to
evalLetStatement(node, env, s, d) ==
    LET val == Eval(node.Value, env, s, d)
    IN IF isPanic(val.val) \/ isError(val.val) THEN val
       ELSE Ret(nil, [val.st EXCEPT
                        !.heap = Set(@, env, node.Name.Value, val.val)])

\* Mutant of evalFunctionLiteral: the function gets a copy of the
\* environment.
evalFunctionLiteral_CopiesEnv(node, env, s) ==
    LET heap1 == Append(s.heap, s.heap[env])
    IN Ret(Function(node.Parameters, node.Body, Len(heap1), s.next),
           alloc([s EXCEPT !.heap = heap1]))

evalFunctionLiteral(node, env, s) ==
    Ret(Function(node.Parameters, node.Body, env, s.next), alloc(s))

\* Mutant of evalCallExpression: the arguments are evaluated before the
\* callee.
evalCallExpression_ArgumentsFirst(node, env, s, d) ==
    LET args == evalExpression(node.Arguments, env, s, d)
        function == Eval(node.Function, env, args.st, d)
        stopped == isPanic(function.val) \/ isError(function.val)
    IN CASE isPanic(args.val) -> Ret(args.val, args.st)
         [] ~isPanic(args.val) /\ stopped -> function
         [] ~isPanic(args.val) /\ ~stopped
                /\ Len(args.list) = 1 /\ isError(args.list[1]) ->
              Ret(args.list[1], function.st)
         [] OTHER -> applyFunction(function.val, args.list, function.st, d)

evalCallExpression(node, env, s, d) ==
    LET function == Eval(node.Function, env, s, d)
        args == evalExpression(node.Arguments, env, function.st, d)
        stopped == isPanic(function.val) \/ isError(function.val)
    IN CASE stopped -> function
         [] ~stopped /\ isPanic(args.val) -> Ret(args.val, args.st)
         [] ~stopped /\ ~isPanic(args.val)
                /\ Len(args.list) = 1 /\ isError(args.list[1]) ->
              Ret(args.list[1], args.st)
         [] OTHER -> applyFunction(function.val, args.list, args.st, d)

evalArrayLiteral(node, env, s, d) ==
    LET elements == evalExpression(node.Elements, env, s, d)
    IN IF isPanic(elements.val) THEN Ret(elements.val, elements.st)
       ELSE IF Len(elements.list) = 1 /\ isError(elements.list[1])
       THEN Ret(elements.list[1], elements.st)
       ELSE Ret(Array(elements.list, elements.st.next), alloc(elements.st))

evalIndexNode(node, env, s, d) ==
    LET left == Eval(node.Left, env, s, d)
    IN IF isPanic(left.val) \/ isError(left.val) THEN left
       ELSE LET index == Eval(node.Index, env, left.st, d)
            IN IF isPanic(index.val) \/ isError(index.val) THEN index
               ELSE Ret(evalIndexExpression(left.val, index.val), index.st)

\* Eval(node, env): the switch on the node's type, with the history kept
Eval(node, env, s0, d) ==
    LET s == logEnter(s0, node, env, d)
        r == CASE node.kind = "ExpressionStatement" -> Eval(node.Expression, env, s, d)
               [] node.kind = "IntegerLiteral" -> Ret(Integer(node.Value), s)
               [] node.kind = "FloatLiteral" -> Ret(Float(node.Value), s)
               [] node.kind = "Boolean" -> Ret(nativeToBooleanObject(node.Value), s)
               [] node.kind = "PrefixExpression" -> evalPrefixNode(node, env, s, d)
               [] node.kind = "InfixExpression" -> evalInfixNode(node, env, s, d)
               [] node.kind = "BlockStatement" -> evalBlockStatement(node, env, s, d)
               [] node.kind = "IfExpression" -> evalIfExpression(node, env, s, d)
               [] node.kind = "ReturnStatement" -> evalReturnStatement(node, env, s, d)
               [] node.kind = "LetStatement" -> evalLetStatement(node, env, s, d)
               [] node.kind = "Identifier" -> Ret(evalIdentifier(node, env, s.heap), s)
               [] node.kind = "FunctionLiteral" -> evalFunctionLiteral(node, env, s)
               [] node.kind = "CallExpression" -> evalCallExpression(node, env, s, d)
               [] node.kind = "StringLiteral" -> Ret(String(node.Value), s)
               [] node.kind = "ArrayLiteral" -> evalArrayLiteral(node, env, s, d)
               [] node.kind = "IndexExpression" -> evalIndexNode(node, env, s, d)
               [] OTHER -> Ret(nil, s)
    IN IF r.val.type = "PANIC" THEN r
       ELSE Ret(r.val, logExit(r.st, node, env, d, r.val, s0.heap))

(***************************************************************************)
(* The programs evaluated.                                                  *)
(***************************************************************************)
IntLit(n) == IntegerLiteral(n)

Bool(b) == BooleanLiteral(b)

Id(name) == Identifier(name)

ES(e) == ExpressionStatement(e)

Block(stmts) == BlockStatement(stmts)

If(cond, cons) == IfExpression(cond, Block(cons), <<>>, NilNode)

IfElse(cond, cons, alt) == IfExpression(cond, Block(cons), <<>>, Block(alt))

Fn(params, body) ==
    FunctionLiteral([i \in 1..Len(params) |-> Identifier(params[i])], Block(body))

Call(fn, args) == CallExpression(fn, args)

\* Largest number of statements of a generated statement list.
MaxStmts == 3

RECURSIVE SeqsOfLen(_, _)
SeqsOfLen(S, n) ==
    IF n = 0 THEN {<<>>}
    ELSE {Append(q, x) : q \in SeqsOfLen(S, n - 1), x \in S}

\* the statement lists of 1..n statements drawn from S
StmtLists(S, n) == UNION {SeqsOfLen(S, k) : k \in 1..n}

\* "5 + true": type mismatch
ErrMismatch == InfixExpression(IntLit(5), "+", Bool(TRUE))

\* "true + false": unknown operator
ErrUnknown == InfixExpression(Bool(TRUE), "+", Bool(FALSE))

\* statements that bind, fail, or do neither
ErrorStmts ==
    { ES(IntLit(7)),
      LetStatement("a", IntLit(1)),
      LetStatement("a", ErrMismatch),
      LetStatement("b", Id("a")),
      ES(ErrUnknown),
      ES(If(Bool(TRUE), <<LetStatement("a", IntLit(2)), ES(Id("foobar"))>>)) }

ErrorPrograms == StmtLists(ErrorStmts, MaxStmts)

\* a let whose value fails, in a function body: the name is the parameter
\* or a new one
LetErrorInCallPrograms ==
    { <<LetStatement("f",
            Fn(<<"a">>, <<LetStatement(n, e), ES(Id("a"))>>)),
        ES(Call(Id("f"), <<IntLit(1)>>)),
        ES(IntLit(7))>> :
      n \in {"a", "c"}, e \in {ErrMismatch, ErrUnknown, Id("foobar")} }

\* statements around return: a plain return, returns in nested if blocks (in
\* statement position), an if that is not taken, an if block that returns
\* used as the value of a let and as the operand of a return
ReturnStmts ==
    { ES(IntLit(9)),
      ReturnStatement(IntLit(10)),
      ES(If(Bool(TRUE),
            <<ES(If(Bool(TRUE), <<ReturnStatement(IntLit(11))>>)),
              ReturnStatement(IntLit(1))>>)),
      ES(If(Bool(FALSE), <<ReturnStatement(IntLit(3))>>)),
      LetStatement("x", If(Bool(TRUE), <<ReturnStatement(IntLit(5))>>)),
      ReturnStatement(If(Bool(TRUE), <<ReturnStatement(IntLit(6))>>)) }

\* at the top level of a program
ReturnPrograms == StmtLists(ReturnStmts, MaxStmts)

\* in the body of a function that the program calls and then goes on
ReturnInCallPrograms ==
    { <<ES(Call(Fn(<<>>, body), <<>>)), ES(IntLit(7))>> :
      body \in StmtLists(ReturnStmts, MaxStmts) }

\* the integers the closure programs are built from
ClosureInts == 1..3

\* let newAdder = fn(x) { fn(y) { x + y } }; let addTwo = newAdder(a);
\* addTwo(b);
NewAdderProgram(a, b) ==
    <<LetStatement("newAdder",
          Fn(<<"x">>,
             <<ES(Fn(<<"y">>, <<ES(InfixExpression(Id("x"), "+", Id("y")))>>))>>)),
      LetStatement("addTwo", Call(Id("newAdder"), <<IntLit(a)>>)),
      ES(Call(Id("addTwo"), <<IntLit(b)>>))>>

\* let x = a; let f = fn() { x }; let g = fn(x) { f() }; g(b);
\* the caller of f binds x too
CallerScopeProgram(a, b) ==
    <<LetStatement("x", IntLit(a)),
      LetStatement("f", Fn(<<>>, <<ES(Id("x"))>>)),
      LetStatement("g", Fn(<<"x">>, <<ES(Call(Id("f"), <<>>))>>)),
      ES(Call(Id("g"), <<IntLit(b)>>))>>

\* let f = fn(x) { fn() { x } }; let g = f(a); let h = f(b); g();
TwoClosuresProgram(a, b) ==
    <<LetStatement("f", Fn(<<"x">>, <<ES(Fn(<<>>, <<ES(Id("x"))>>))>>)),
      LetStatement("g", Call(Id("f"), <<IntLit(a)>>)),
      LetStatement("h", Call(Id("f"), <<IntLit(b)>>)),
      ES(Call(Id("g"), <<>>))>>

\* let x = a; let f = fn() { x }; let x = b; f();
RebindProgram(a, b) ==
    <<LetStatement("x", IntLit(a)),
      LetStatement("f", Fn(<<>>, <<ES(Id("x"))>>)),
      LetStatement("x", IntLit(b)),
      ES(Call(Id("f"), <<>>))>>

\* let f = fn() { x }; let x = b; f();
LateBindProgram(b) ==
    <<LetStatement("f", Fn(<<>>, <<ES(Id("x"))>>)),
      LetStatement("x", IntLit(b)),
      ES(Call(Id("f"), <<>>))>>

\* let mk = fn() { let g = fn() { y }; let y = a; g }; mk()();
InnerLateBindProgram(a) ==
    <<LetStatement("mk",
          Fn(<<>>,
             <<LetStatement("g", Fn(<<>>, <<ES(Id("y"))>>)),
               LetStatement("y", IntLit(a)),
               ES(Id("g"))>>)),
      ES(Call(Call(Id("mk"), <<>>), <<>>))>>

\* let sum = fn(n) { if (n == 0) { 0 } else { n + sum(n - 1) } }; sum(k);
RecursionProgram(k) ==
    <<LetStatement("sum",
          Fn(<<"n">>,
             <<ES(IfElse(InfixExpression(Id("n"), "==", IntLit(0)),
                         <<ES(IntLit(0))>>,
                         <<ES(InfixExpression(Id("n"), "+",
                               Call(Id("sum"),
                                    <<InfixExpression(Id("n"), "-", IntLit(1))>>)))>>))>>)),
      ES(Call(Id("sum"), <<IntLit(k)>>))>>

\* let x = a; let f = fn(x) { let x = b; let y = b; x }; f(a + b); x;
ShadowProgram(a, b) ==
    <<LetStatement("x", IntLit(a)),
      LetStatement("f",
          Fn(<<"x">>,
             <<LetStatement("x", IntLit(b)), LetStatement("y", IntLit(b)),
               ES(Id("x"))>>)),
      ES(Call(Id("f"), <<InfixExpression(IntLit(a), "+", IntLit(b))>>)),
      ES(Id("x"))>>

\* let x = a; let mk = fn(x) { fn() { let x = b; x } }; let g = mk(a + b);
\* let h = fn(x) { g() }; h(a + a); x;
\* the defining environment of g, its caller's environment and the global
\* environment are three environments that bind x
ThreeEnvsProgram(a, b) ==
    <<LetStatement("x", IntLit(a)),
      LetStatement("mk",
          Fn(<<"x">>,
             <<ES(Fn(<<>>, <<LetStatement("x", IntLit(b)), ES(Id("x"))>>))>>)),
      LetStatement("g",
          Call(Id("mk"), <<InfixExpression(IntLit(a), "+", IntLit(b))>>)),
      LetStatement("h", Fn(<<"x">>, <<ES(Call(Id("g"), <<>>))>>)),
      ES(Call(Id("h"), <<InfixExpression(IntLit(a), "+", IntLit(a))>>)),
      ES(Id("x"))>>

\* let f = fn() { f() }; f();  the calls nest until the stack is exhausted
EndlessProgram ==
    <<LetStatement("f", Fn(<<>>, <<ES(Call(Id("f"), <<>>))>>)),
      ES(Call(Id("f"), <<>>))>>

\* the arguments sum is called with
RecursionArgs == 0..1

ClosurePrograms ==
    {NewAdderProgram(a, b) : a, b \in ClosureInts}
        \cup {CallerScopeProgram(a, b) : a, b \in ClosureInts}
        \cup {TwoClosuresProgram(a, b) : a, b \in ClosureInts}
        \cup {RebindProgram(a, b) : a, b \in ClosureInts}
        \cup {LateBindProgram(b) : b \in ClosureInts}
        \cup {InnerLateBindProgram(a) : a \in ClosureInts}
        \cup {RecursionProgram(k) : k \in RecursionArgs}
        \cup {ShadowProgram(a, b) : a, b \in ClosureInts}
        \cup {ThreeEnvsProgram(a, b) : a, b \in ClosureInts}
        \cup {EndlessProgram}

\* the names looked up: bound by the programs, a builtin bound by the
\* programs, a builtin they never bind, a name nothing binds
LookupNames == {"x", "len", "first", "q"}

\* G; fn(P) { L; n }(10); n;   or, nested,   G; fn(P) { L; fn() { n }() }(10); n;
\* with G the global lets, P the parameters, L the lets of the body and n the
\* name looked up
IdentifierProgram(G, P, L, n, nested) ==
    G \o <<ES(Call(Fn(P, L \o <<ES(IF nested
                                    THEN Call(Fn(<<>>, <<ES(Id(n))>>), <<>>)
                                    ELSE Id(n))>>),
                  [i \in 1..Len(P) |-> IntLit(10)])),
          ES(Id(n))>>

IdentifierPrograms ==
    {IdentifierProgram(G, P, L, n, nested) :
        G \in {<<>>, <<LetStatement("x", IntLit(1))>>,
               <<LetStatement("len", IntLit(2))>>,
               <<LetStatement("x", IntLit(1)), LetStatement("len", IntLit(2))>>},
        P \in {<<>>, <<"x">>, <<"len">>},
        L \in {<<>>, <<LetStatement("x", IntLit(30))>>,
               <<LetStatement("len", IntLit(40))>>},
        n \in LookupNames,
        nested \in BOOLEAN}

\* Largest number of else-if clauses of a generated if expression.
MaxElseIfs == 2

\* if (false) { 1 }: evaluates to NULL
NullExpr == If(Bool(FALSE), <<ES(IntLit(1))>>)

\* fn() { }(): the body has no statement
EmptyCall == Call(Fn(<<>>, <<>>), <<>>)

\* "a" == "b"
StringsDiffer == InfixExpression(StringLiteral("a"), "==", StringLiteral("b"))

\* the conditions: the two boolean literals, an integer, NULL, the value of
\* a string comparison, an unbound identifier, a call without a value
Conditions ==
    {Bool(TRUE), Bool(FALSE), IntLit(0), NullExpr, StringsDiffer, Id("foobar"),
     EmptyCall}

\* if (c[1]) { 10 } else if (c[2]) { 11 } ... [else { 20 }]
IfProgram(c, withElse) ==
    <<ES(IfExpression(c[1], Block(<<ES(IntLit(10))>>),
            [i \in 1..(Len(c) - 1) |->
                ElseIfExpression(c[i + 1], Block(<<ES(IntLit(10 + i))>>))],
            IF withElse THEN Block(<<ES(IntLit(20))>>) ELSE NilNode))>>

IfPrograms ==
    {IfProgram(c, withElse) :
        c \in UNION {SeqsOfLen(Conditions, n) : n \in 1..(MaxElseIfs + 1)},
        withElse \in BOOLEAN}

\* [1]
OneArray == ArrayLiteral(<<IntLit(1)>>)

\* if (true) { return 1 }: evaluates to a ReturnValue
ReturnExpr == If(Bool(TRUE), <<ReturnStatement(IntLit(1))>>)

\* the operands of the infix programs
Operands ==
    {IntLit(1), FloatLiteral(3, 2), Bool(TRUE), Bool(FALSE), StringLiteral("a"),
     NullExpr, Id("arr"), OneArray, Id("f"), Fn(<<>>, <<>>), Id("len"),
     StringsDiffer, ReturnExpr, EmptyCall}

Operators == {"+", "-", "*", "/", "<", ">", "==", "!="}

\* let arr = [1]; let f = fn() { }; L op R;
InfixProgram(L, op, R) ==
    <<LetStatement("arr", OneArray), LetStatement("f", Fn(<<>>, <<>>)),
      ES(InfixExpression(L, op, R))>>

InfixPrograms ==
    {InfixProgram(L, op, R) : L \in Operands, op \in Operators, R \in Operands}

(***************************************************************************)
(* Integer expressions: literals, unary minus and the five arithmetic       *)
(* operators (TestEvalIntegerExpression).  A literal is never negative: the *)
(* parser reads -5 as the prefix expression -(5).                           *)
(***************************************************************************)
Neg(e) == PrefixExpression("-", e)

ArithmeticOperators == {"+", "-", "*", "/", "%"}

\* the operands of one operator: small values of both signs, and the
\* largest and the smallest value that can be written
ArithmeticLeaves ==
    {IntLit(0), IntLit(1), IntLit(2), IntLit(7), IntLit(MaxInt64)}
        \cup {Neg(IntLit(1)), Neg(IntLit(2)), Neg(IntLit(7)), Neg(IntLit(MaxInt64))}

\* the operands of nested operators
NestedLeaves == {IntLit(2), IntLit(7), Neg(IntLit(3))}

\* (5 + 10 * 2 + 15 / 3) * 2 + -10
FiftyExpr ==
    InfixExpression(
        InfixExpression(
            InfixExpression(
                InfixExpression(IntLit(5), "+",
                                InfixExpression(IntLit(10), "*", IntLit(2))),
                "+", InfixExpression(IntLit(15), "/", IntLit(3))),
            "*", IntLit(2)),
        "+", Neg(IntLit(10)))

\* (-MaxInt64 - 1) op -1: the smallest integer against minus one
MinIntExprs ==
    {InfixExpression(InfixExpression(Neg(IntLit(MaxInt64)), "-", IntLit(1)),
                     op, Neg(IntLit(1))) : op \in {"/", "%", "*"}}
        \cup {Neg(InfixExpression(Neg(IntLit(MaxInt64)), "-", IntLit(1)))}

ArithmeticExprs ==
    {InfixExpression(a, op, b) :
        a \in ArithmeticLeaves, op \in ArithmeticOperators, b \in ArithmeticLeaves}
    \cup {InfixExpression(InfixExpression(a, op1, b), op2, c) :
            a \in NestedLeaves, b \in NestedLeaves, c \in NestedLeaves,
            op1 \in ArithmeticOperators, op2 \in ArithmeticOperators}
    \cup {InfixExpression(a, op1, InfixExpression(b, op2, c)) :
            a \in NestedLeaves, b \in NestedLeaves, c \in NestedLeaves,
            op1 \in ArithmeticOperators, op2 \in ArithmeticOperators}
    \cup {Neg(InfixExpression(a, op, b)) :
            a \in NestedLeaves, op \in ArithmeticOperators, b \in NestedLeaves}
    \cup {FiftyExpr, InfixExpression(IntLit(2), "*",
                                     InfixExpression(IntLit(5), "+", IntLit(10)))}
    \cup MinIntExprs

ArithmeticPrograms == {<<ES(e)>> : e \in ArithmeticExprs}

(***************************************************************************)
(* An Integer against a Float, either way round (TestEvalFloatExpression;   *)
(* 4 - 1.5, 3 / 1.5 and 1 < 1.5 are the examples of spec section 5).        *)
(***************************************************************************)
MixedOperators == {"+", "-", "*", "/", "%", "<", ">", "==", "!="}

MixedIntegers == {IntLit(0), IntLit(1), IntLit(3), IntLit(4)}

\* 1.5, 0.5 and 3.0
MixedFloats == {FloatLiteral(3, 2), FloatLiteral(1, 2), FloatLiteral(3, 1)}

MixedPrograms ==
    {<<ES(InfixExpression(i, op, f))>> :
        i \in MixedIntegers, op \in MixedOperators, f \in MixedFloats}
    \cup {<<ES(InfixExpression(f, op, i))>> :
            i \in MixedIntegers, op \in MixedOperators, f \in MixedFloats}

(***************************************************************************)
(* !e and !!e (TestBangOperator), over operands of every type.              *)
(***************************************************************************)
Bang(e) == PrefixExpression("!", e)

StringsEqual == InfixExpression(StringLiteral("a"), "==", StringLiteral("a"))

BangOperands ==
    {Bool(TRUE), Bool(FALSE), IntLit(5), IntLit(0), FloatLiteral(3, 2),
     StringLiteral("a"), NullExpr, OneArray, Fn(<<>>, <<>>), Id("len"),
     InfixExpression(IntLit(1), "<", IntLit(2)),
     InfixExpression(IntLit(1), ">", IntLit(2)),
     InfixExpression(FloatLiteral(3, 2), "==", FloatLiteral(3, 2)),
     InfixExpression(Bool(TRUE), "==", Bool(FALSE)),
     StringsDiffer, StringsEqual, EmptyCall, Id("x")}

BangPrograms ==
    {<<ES(Bang(e))>> : e \in BangOperands}
        \cup {<<ES(Bang(Bang(e)))>> : e \in BangOperands}
        \cup {<<ES(If(Bang(Bang(e)), <<ES(IntLit(1))>>))>> : e \in BangOperands}

(***************************************************************************)
(* Comparisons used as a value and as a condition                           *)
(* (TestEvalBooleanExpression, TestStringComparison).                       *)
(***************************************************************************)
Comparisons ==
    {Bool(TRUE), Bool(FALSE),
     InfixExpression(IntLit(1), "<", IntLit(2)),
     InfixExpression(IntLit(1), ">", IntLit(2)),
     InfixExpression(IntLit(1), "==", IntLit(1)),
     InfixExpression(IntLit(1), "!=", IntLit(1)),
     InfixExpression(FloatLiteral(3, 2), "==", FloatLiteral(3, 2)),
     InfixExpression(FloatLiteral(3, 2), "<", FloatLiteral(1, 2)),
     InfixExpression(IntLit(1), "<", FloatLiteral(3, 2)),
     InfixExpression(Bool(TRUE), "==", Bool(TRUE)),
     InfixExpression(Bool(TRUE), "!=", Bool(TRUE)),
     InfixExpression(NullExpr, "==", NullExpr),
     StringsEqual, StringsDiffer,
     Bang(IntLit(5)), Bang(NullExpr), Bang(StringsDiffer)}

\* c == true;   and   if (c) { 1 } else { 2 };
ComparisonPrograms ==
    {<<ES(InfixExpression(c, "==", Bool(TRUE)))>> : c \in Comparisons}
        \cup {<<ES(IfElse(c, <<ES(IntLit(1))>>, <<ES(IntLit(2))>>))>> :
                c \in Comparisons}

(***************************************************************************)
(* An if block that returns, used as an array element and as a call         *)
(* argument (as the value of a let and as the operand of a return it is in  *)
(* ReturnStmts).                                                            *)
(***************************************************************************)
WrapperPrograms ==
    { <<ES(ArrayLiteral(<<IntLit(1), ReturnExpr>>))>>,
      <<LetStatement("a", ArrayLiteral(<<ReturnExpr>>)), ES(Id("a"))>>,
      <<ES(Call(Fn(<<"x">>, <<ES(Id("x"))>>), <<ReturnExpr>>))>>,
      <<ES(Call(Fn(<<"x">>, <<ES(ArrayLiteral(<<Id("x")>>))>>), <<ReturnExpr>>))>>,
      <<LetStatement("f", Fn(<<"x">>, <<ES(Fn(<<>>, <<ES(Id("x"))>>))>>)),
        LetStatement("g", Call(Id("f"), <<ReturnExpr>>)),
        ES(Call(Id("g"), <<>>))>>,
      <<ES(Call(Fn(<<"x">>, <<ES(Id("x"))>>), <<IntLit(1)>>))>>,
      <<LetStatement("a", ArrayLiteral(<<IntLit(1)>>)), ReturnStatement(Id("a"))>> }

(***************************************************************************)
(* Index expressions on arrays of every length up to MaxArrayLen, with      *)
(* indices on both sides of the range (TestArrayIndexExpressions).          *)
(***************************************************************************)
MaxArrayLen == 3

\* [11, 12, ...] of length n
ArrayOfLen(n) == ArrayLiteral([k \in 1..n |-> IntLit(10 + k)])

\* an index written as a literal, as -literal, as a sum, and the largest
\* and smallest integers
IndexExprs ==
    {IntLit(i) : i \in 0..(MaxArrayLen + 1)}
        \cup {Neg(IntLit(i)) : i \in 1..(MaxArrayLen + 1)}
        \cup {InfixExpression(IntLit(1), "+", IntLit(1)), Id("i"),
              IntLit(MaxInt64), InfixExpression(Neg(IntLit(MaxInt64)), "-", IntLit(1))}

\* let i = 1; let myArray = [...]; [...][index]; myArray[index];
IndexPrograms ==
    {<<LetStatement("i", IntLit(1)), LetStatement("myArray", ArrayOfLen(n)),
       ES(IndexExpression(ArrayOfLen(n), x)),
       ES(IndexExpression(Id("myArray"), x))>> :
        n \in 0..MaxArrayLen, x \in IndexExprs}
    \cup {<<ES(IndexExpression(
               ArrayLiteral(<<Bool(TRUE), OneArray, StringLiteral("a"), NullExpr>>),
               IntLit(i)))>> : i \in 0..4}

(***************************************************************************)
(* Calls with up to MaxArgs arguments, each of which evaluates to a value   *)
(* or to an Error, of a function, of a builtin and of a callee that is      *)
(* itself an Error.                                                         *)
(***************************************************************************)
MaxArgs == 3

ParamNames == <<"a", "b", "c", "d", "e">>

\* a value, "identifier not found: x" and "type mismatch: INTEGER + BOOLEAN"
ArgExprs == {IntLit(1), Id("x"), ErrMismatch}

ArgLists == UNION {SeqsOfLen(ArgExprs, n) : n \in 0..MaxArgs}

\* fn(a, b, ...) { 7 } with as many parameters as there are arguments
FnOfArity(n) == Fn(SubSeq(ParamNames, 1, n), <<ES(IntLit(7))>>)

\* let f = fn(...) { 7 }; f(args);   fn(...) { 7 }(args);   len(args);
\* g(args);
CallArgPrograms ==
    {<<LetStatement("f", FnOfArity(Len(args))), ES(Call(Id("f"), args))>> :
        args \in ArgLists}
    \cup {<<ES(Call(FnOfArity(Len(args)), args))>> : args \in ArgLists}
    \cup {<<ES(Call(Id("len"), args))>> : args \in ArgLists}
    \cup {<<ES(Call(Id("g"), args))>> : args \in ArgLists}

(***************************************************************************)
(* Calls of the builtins with no, one and two arguments of every type       *)
(* (TestBuiltinFunctions).                                                  *)
(***************************************************************************)
BuiltinNames == {"len", "first", "last"}

BuiltinArgs ==
    {ArrayOfLen(n) : n \in 0..MaxArrayLen}
        \cup {StringLiteral(""), StringLiteral("four"), IntLit(1),
              FloatLiteral(3, 2), Bool(TRUE), NullExpr, Fn(<<>>, <<>>),
              Id("len"), EmptyCall}

BuiltinPrograms ==
    {<<ES(Call(Id(name), args))>> :
        name \in BuiltinNames,
        args \in SeqsOfLen(BuiltinArgs, 0) \cup SeqsOfLen(BuiltinArgs, 1)
                    \cup SeqsOfLen(BuiltinArgs, 2)}

(***************************************************************************)
(* The names of the base library, looked up and called                      *)
(* (TestBuiltinFunctions).                                                  *)
(***************************************************************************)
BaseLibrary == {"len", "first", "last", "rest", "push", "pop"}

Ints(q) == ArrayLiteral([k \in DOMAIN q |-> IntLit(q[k])])

BaseLibraryPrograms ==
    {<<ES(Id(name))>> : name \in BaseLibrary}
        \cup {<<LetStatement(name, IntLit(1)), ES(Id(name))>> : name \in BaseLibrary}
        \cup {<<ES(Call(Id("rest"), <<Ints(<<1, 2, 3>>)>>))>>,
              <<ES(Call(Id("rest"), <<Ints(<<1>>)>>))>>,
              <<ES(Call(Id("push"), <<Ints(<<1>>), IntLit(2)>>))>>,
              <<ES(Call(Id("pop"), <<Ints(<<1, 2>>)>>))>>,
              <<ES(Call(Id("pop"), <<Ints(<<>>)>>))>>}

(***************************************************************************)
(* An Integer divided by the Integer 0, as a statement of the program, in  *)
(* the block of an if expression and in the body of a called function,     *)
(* each with a statement after it.                                         *)
(***************************************************************************)
DivisionsByZero ==
    {InfixExpression(a, op, IntLit(0)) :
        a \in {IntLit(0), IntLit(7), Neg(IntLit(7))}, op \in {"/", "%"}}

DivisionByZeroPrograms ==
    {<<ES(e), ES(IntLit(5))>> : e \in DivisionsByZero}
        \cup {<<ES(If(Bool(TRUE), <<ES(e), ES(IntLit(5))>>)), ES(IntLit(6))>> :
                e \in DivisionsByZero}
        \cup {<<ES(Call(Fn(<<>>, <<ES(e), ES(IntLit(5))>>), <<>>)),
                ES(IntLit(6))>> : e \in DivisionsByZero}

(***************************************************************************)
(* let f = fn(a, b, ...) { a }; f(1, 2, ...); 5 with n parameters and m    *)
(* arguments, n # m; the body of a function without parameters is 7.       *)
(***************************************************************************)
ArgsOfLen(m) == [i \in 1..m |-> IntLit(i)]

ArityMismatchProgram(n, m) ==
    <<LetStatement("f", Fn(SubSeq(ParamNames, 1, n),
                           <<ES(IF n = 0 THEN IntLit(7) ELSE Id("a"))>>)),
      ES(Call(Id("f"), ArgsOfLen(m))),
      ES(IntLit(5))>>

ArityMismatchPrograms ==
    {ArityMismatchProgram(nm[1], nm[2]) :
        nm \in {x \in (0..MaxArgs) \X (0..MaxArgs) : x[1] # x[2]}}

(***************************************************************************)
(* Expressions whose evaluation produces no value: fn() { }(),             *)
(* fn() { let x = 1; }(), if (true) { } and if (true) { let x = 1; }, alone *)
(* and as an operand of !, - and of an infix operator.                     *)
(***************************************************************************)
LetOne == LetStatement("x", IntLit(1))

NoValueExprs ==
    {EmptyCall, Call(Fn(<<>>, <<LetOne>>), <<>>), If(Bool(TRUE), <<>>),
     If(Bool(TRUE), <<LetOne>>)}

NoValueUses(e) ==
    {e, Bang(e), Neg(e), InfixExpression(e, "+", IntLit(1)),
     InfixExpression(IntLit(1), "+", e), InfixExpression(e, "==", e),
     InfixExpression(Bool(TRUE), "!=", e)}

NoValuePrograms ==
    {<<ES(u), ES(IntLit(5))>> : u \in UNION {NoValueUses(e) : e \in NoValueExprs}}

Programs ==
    ErrorPrograms \cup LetErrorInCallPrograms \cup ReturnPrograms
        \cup ReturnInCallPrograms \cup ClosurePrograms \cup IdentifierPrograms
        \cup IfPrograms \cup InfixPrograms
        \cup ArithmeticPrograms
        \cup MixedPrograms
        \cup BangPrograms
        \cup ComparisonPrograms
        \cup WrapperPrograms
        \cup IndexPrograms
        \cup CallArgPrograms
        \cup BuiltinPrograms
        \cup BaseLibraryPrograms
        \cup DivisionByZeroPrograms
        \cup ArityMismatchPrograms
        \cup NoValuePrograms

(***************************************************************************)
(* Eval(program, env) on a fresh environment: evalProgram, one step per     *)
(* iteration of its loop.                                                   *)
(***************************************************************************)
Init ==
    /\ program \in Programs
    /\ pc = 1
    /\ result = nil
    /\ status = "running"
    /\ out = nil
    /\ st = [heap |-> <<NewEnvironment>>, next |-> 10, log |-> <<>>,
             open |-> <<>>]
    /\ parser = IdleParser
    /\ lexer = IdleLexer

\* Mutant of programReturns: the switch has no case for *object.Error.
programReturns_NoErrorCase(val) == ~isNil(val) /\ val.type = RETURN_VALUE_OBJ

\* the type switch on a statement's result: does evalProgram return?
programReturns(val) ==
    ~isNil(val) /\ val.type \in {RETURN_VALUE_OBJ, ERROR_OBJ}

\* ... and with what
programReturnValue(val) ==
    IF val.type = RETURN_VALUE_OBJ THEN val.Value ELSE val

\* one iteration of the loop: result = Eval(statement, env), then the switch
evalProgramStatement ==
    /\ status = "running"
    /\ pc <= Len(program)
    /\ LET r == Eval(program[pc], 1, st, 0)
       IN /\ st' = r.st
          /\ IF isPanic(r.val)
             THEN /\ status' = "panicked"
                  /\ out' = r.val
                  /\ UNCHANGED <<result, pc>>
             ELSE /\ result' = r.val
                  /\ IF programReturns(r.val)
                     THEN /\ status' = "returned"
                          /\ out' = programReturnValue(r.val)
                          /\ pc' = pc
                     ELSE /\ pc' = pc + 1
                          /\ UNCHANGED <<status, out>>
    /\ UNCHANGED <<program, parser, lexer>>

\* the loop is over: return result
evalProgramEnd ==
    /\ status = "running"
    /\ pc > Len(program)
    /\ status' = "returned"
    /\ out' = result
    /\ UNCHANGED <<program, pc, result, st, parser, lexer>>

Next == evalProgramStatement \/ evalProgramEnd

Spec == Init /\ [][Next]_<<vars, parser, lexer>>

(***************************************************************************)
(* The history of an evaluation.  Entry j of the log is an enter, an exit   *)
(* or an apply entry; the enter and exit entries nest like the calls of     *)
(* Eval they record.                                                        *)
(***************************************************************************)
Log == st.log

IsEnter(j) == Log[j].e = "enter"

IsExit(j) == Log[j].e = "exit"

\* the nesting depth of the call entry j belongs to (0: a top-level statement)
DepthOf(j) == Len(Log[j].open)

\* the enter entry of the call of Eval that made the call entry j belongs to,
\* or that called applyFunction for apply entry j; 0 if there is none
ParentOf(j) == IF Log[j].open = <<>> THEN 0 ELSE Log[j].open[Len(Log[j].open)]

Exits == {j \in 1..Len(Log) : IsExit(j)}

\* the exits of the top-level statements
TopExits == {j \in Exits : DepthOf(j) = 0}

\* the enter entry of the call that exit entry j closes
EnterOf(j) == Log[j].enter

\* the exits of the calls of Eval made directly by the call exit j closes
ChildExits(j) == {i \in Exits : ParentOf(i) = EnterOf(j)}

\* a call of Eval was made after entry j
EvaluatedAfter(j) == \E i \in (j + 1)..Len(Log) : IsEnter(i)

(***************************************************************************)
(* C1.  Evaluating a Program stops at the first top-level statement whose   *)
(* value is an Error: Eval returns that very Error object, no statement is  *)
(* evaluated after it, and the environments are as that statement left      *)
(* them.                                                                    *)
(***************************************************************************)
C1_ErrorStopsProgram ==
    \A j \in TopExits :
        isError(Log[j].val) =>
            /\ status = "returned"
            /\ out = Log[j].val
            /\ ~EvaluatedAfter(j)
            /\ j = Len(Log)
            /\ st.heap = Log[j].heap

\* A program returned an Error from a statement that is not its last, and a
\* let statement after it has left its name unbound.
C1_Witness ==
    /\ status = "returned"
    /\ isError(out)
    /\ Len(Log) > 0
    /\ \E k \in (pc + 1)..Len(program) :
          /\ program[k].kind = "LetStatement"
          /\ program[k].Name.Value \notin DOMAIN st.heap[1].store

(***************************************************************************)
(* C8.  If the value expression of a let statement evaluates to an Error,   *)
(* the let statement evaluates to that Error and no environment changes:    *)
(* the name keeps the binding it had, or stays unbound.                     *)
(***************************************************************************)
C8_LetErrorBindsNothing ==
    \A j \in Exits :
        Log[j].node.kind = "LetStatement" =>
            \A c \in ChildExits(j) :
                isError(Log[c].val) =>
                    /\ Log[c].node = Log[j].node.Value
                    /\ Log[j].val = Log[c].val
                    /\ Log[j].heap = Log[j].heap0

\* A let statement has evaluated to an Error while its name was bound in
\* the environment it ran in, and the name still has that binding.
C8_Witness ==
    \E j \in Exits :
        /\ Log[j].node.kind = "LetStatement"
        /\ isError(Log[j].val)
        /\ Log[j].node.Name.Value \in DOMAIN Log[j].heap0[Log[j].env].store
        /\ st.heap[Log[j].env].store[Log[j].node.Name.Value]
              = Log[j].heap0[Log[j].env].store[Log[j].node.Name.Value]

(***************************************************************************)
(* Return statements in the history.                                        *)
(***************************************************************************)
\* the return statements executed (they produced their wrapper) with f
\* applyFunction calls on the stack
ReturnExits(f) ==
    {j \in Exits : /\ Log[j].node.kind = "ReturnStatement"
                   /\ Log[j].frame = f
                   /\ ~isNil(Log[j].val)
                   /\ Log[j].val.type = RETURN_VALUE_OBJ}

Min(S) == CHOOSE x \in S : \A y \in S : x <= y

Max(S) == CHOOSE x \in S : \A y \in S : x >= y

\* the calls of Eval open at entry j, in the same function body (or all at
\* the top level) as entry j
Enclosing(j) ==
    {Log[j].open[n] : n \in {m \in 1..Len(Log[j].open) :
                                Log[Log[j].open[m]].frame = Log[j].frame}}

\* Entry j is a statement of the program or of the function body it runs in,
\* or of an if block that is such a statement, and so on: below the body,
\* the enclosing nodes are expression statement, if, block, repeated.
StatementPosition(j) ==
    LET f == Log[j].frame
        enc == Enclosing(j)
        base == IF f = 0 THEN 0 ELSE Min({DepthOf(i) : i \in enc}) + 1
        kindAt == <<"ExpressionStatement", "IfExpression", "BlockStatement">>
    IN /\ f > 0 => enc # {}
       /\ (DepthOf(j) - base) % 3 = 0
       /\ \A i \in enc :
             IF DepthOf(i) < base THEN Log[i].node.kind = "BlockStatement"
             ELSE Log[i].node.kind = kindAt[((DepthOf(i) - base) % 3) + 1]

\* every return statement executed so far was in statement position
AllInStatementPosition ==
    \A f \in 0..MaxCallDepth : \A j \in ReturnExits(f) : StatementPosition(j)

(***************************************************************************)
(* C2.  When a return statement is executed at the top level of a Program   *)
(* or inside nested if blocks, Eval(Program) returns the inner value of the *)
(* first return executed and evaluates nothing after it.                    *)
(* This fails: an if block that returns, used where a value is expected     *)
(* (the value of a let, an operand), hands its wrapper to that place and    *)
(* evaluation goes on.                                                      *)
(***************************************************************************)
C2_ReturnEndsProgram ==
    ReturnExits(0) # {} =>
        LET j == Min(ReturnExits(0))
        IN /\ status = "returned"
           /\ out = Log[j].val.Value
           /\ ~EvaluatedAfter(j)

\* What does hold with the if expressions in statement position (C2): the
\* wrapper travels up through the blocks and the program unwraps it.
C2_InStatementPosition == AllInStatementPosition => C2_ReturnEndsProgram

(***************************************************************************)
(* C3.  A return executed inside a function body, at any depth of nested if *)
(* blocks, ends that call and only it: the call expression evaluates to the *)
(* inner value returned, nothing of the body is evaluated after the return, *)
(* and the program does not end with the call.                              *)
(* This fails for the same reason as C2.                                    *)
(***************************************************************************)
\* the exit of the call expression whose body return j was executed in
CallExitsOf(j) ==
    {c \in Exits : /\ c > j
                   /\ Log[c].node.kind = "CallExpression"
                   /\ Log[c].frame = Log[j].frame - 1}

ReturnEndsCall(j) ==
    CallExitsOf(j) # {} =>
        LET c == Min(CallExitsOf(j))
        IN /\ Log[c].val = Log[j].val.Value
           /\ \A k \in (j + 1)..c : ~IsEnter(k)

\* evalProgram returns before its last statement only for a return executed
\* at the top level or for an Error
CallerGoesOn ==
    (status = "returned" /\ pc < Len(program)) =>
        (isError(out) \/ ReturnExits(0) # {})

C3_ReturnEndsCall ==
    /\ \A f \in 1..MaxCallDepth : \A j \in ReturnExits(f) : ReturnEndsCall(j)
    /\ CallerGoesOn

\* What does hold with the if expressions in statement position (C3).
C3_InStatementPosition == AllInStatementPosition => C3_ReturnEndsCall

(***************************************************************************)
(* Function calls in the history.                                           *)
(***************************************************************************)
Applies == {a \in 1..Len(Log) : Log[a].e = "apply"}

\* the apply entry of the call that created environment e
ApplyOf(e) == CHOOSE a \in Applies : Log[a].env = e

\* the enter entry of the call expression that apply entry a serves
CallOf(a) == ParentOf(a)

\* the environments created by function calls
CallEnvs == {Log[a].env : a \in Applies}

\* the identifiers evaluated in the environment of a function call
BodyLookups ==
    {j \in Exits : Log[j].node.kind = "Identifier" /\ Log[j].env \in CallEnvs}

RECURSIVE EnvChain(_, _)
\* the scope chain of environment e, nearest first
EnvChain(heap, e) ==
    IF e = 0 THEN <<>> ELSE <<e>> \o EnvChain(heap, heap[e].outer)

\* what the name stands for in environment e: the binding of the nearest
\* environment of the chain that has the name, else the builtin of that
\* name, else the Error
Resolve(heap, e, name) ==
    LET chain == EnvChain(heap, e)
        hits == {i \in 1..Len(chain) : name \in DOMAIN heap[chain[i]].store}
    IN IF hits # {} THEN heap[chain[Min(hits)]].store[name]
       ELSE IF name \in {"len", "first", "last"} THEN builtins[name]
       ELSE Error("identifier not found: " \o name)

\* the program has returned this value
Returned(p, v) == (program = p /\ status = "returned") => out = v

(***************************************************************************)
(* C4.  A function body runs in a fresh environment whose outer link is     *)
(* the environment where the function literal was evaluated: the            *)
(* environment of a call did not exist before the call, its outer link is   *)
(* the Env of the function called, and an identifier evaluated in it        *)
(* stands for the call's own binding if there is one and else for what the  *)
(* name resolves to from the function's Env, whatever the caller's          *)
(* environment binds, also once the call that created the function's Env    *)
(* has returned (newAdder).                                                 *)
(***************************************************************************)
C4_BodyRunsInDefiningEnv ==
    /\ \A a \in Applies :
          /\ Log[a].env = Len(Log[a].heap0) + 1
          /\ Log[a].heap[Log[a].env].outer = Log[a].fn.Env
    /\ \A j \in BodyLookups :
          LET name == Log[j].node.Value
              own == Log[j].heap0[Log[j].env].store
          IN Log[j].val =
                IF name \in DOMAIN own THEN own[name]
                ELSE Resolve(Log[j].heap0, Log[ApplyOf(Log[j].env)].fn.Env, name)
    /\ \A a, b \in ClosureInts :
          /\ Returned(NewAdderProgram(a, b), Integer(a + b))
          /\ Returned(CallerScopeProgram(a, b), Integer(a))
          /\ Returned(TwoClosuresProgram(a, b), Integer(a))

\* An identifier free in a function body has been evaluated during a call,
\* the environment of the caller is not the function's Env and binds the name
\* to another value than the one the identifier got.
C4_Witness ==
    \E j \in BodyLookups :
        LET a == ApplyOf(Log[j].env)
            name == Log[j].node.Value
            caller == Log[CallOf(a)].env
        IN /\ name \notin DOMAIN Log[j].heap0[Log[j].env].store
           /\ caller # Log[a].fn.Env
           /\ name \in DOMAIN Log[j].heap0[caller].store
           /\ Log[j].heap0[caller].store[name] # Log[j].val
           /\ ~isError(Log[j].val)

(***************************************************************************)
(* C5.  A function value shares its defining environment: its Env is the    *)
(* environment the function literal was evaluated in, not a copy, so an     *)
(* identifier free in the body stands, at every call, for what the name     *)
(* resolves to in that environment as it is at the time of the lookup,      *)
(* lets executed after the literal included; a function bound by let can    *)
(* call itself.                                                             *)
(***************************************************************************)
\* the exit of the function literal that built the function object fn
LiteralOf(fn) ==
    CHOOSE k \in Exits :
        /\ Log[k].node.kind = "FunctionLiteral"
        /\ Log[k].val.addr = fn.addr

C5_SharesDefiningEnv ==
    /\ \A k \in Exits :
          Log[k].node.kind = "FunctionLiteral" =>
              /\ Log[k].val.type = FUNCTION_OBJ
              /\ Log[k].val.Env = Log[k].env
              /\ Log[k].heap = Log[k].heap0
    /\ \A j \in BodyLookups :
          LET name == Log[j].node.Value
              k == LiteralOf(Log[ApplyOf(Log[j].env)].fn)
          IN name \notin DOMAIN Log[j].heap0[Log[j].env].store =>
                Log[j].val = Resolve(Log[j].heap0, Log[k].env, name)
    /\ \A a, b \in ClosureInts :
          /\ Returned(RebindProgram(a, b), Integer(b))
          /\ Returned(LateBindProgram(b), Integer(b))
          /\ Returned(InnerLateBindProgram(a), Integer(a))
    /\ \A k \in RecursionArgs :
          Returned(RecursionProgram(k), Integer((k * (k + 1)) \div 2))

\* An identifier free in a function body has been evaluated during a call and
\* stands for a binding made after the function literal was evaluated: in
\* the environments as they were then, the name resolved to something else.
C5_Witness ==
    \E j \in BodyLookups :
        LET name == Log[j].node.Value
            k == LiteralOf(Log[ApplyOf(Log[j].env)].fn)
        IN /\ name \notin DOMAIN Log[j].heap0[Log[j].env].store
           /\ ~isError(Log[j].val)
           /\ Resolve(Log[k].heap, Log[k].env, name) # Log[j].val

(***************************************************************************)
(* C6.  An identifier evaluates to the binding of the nearest environment   *)
(* of the scope chain that has the name; the builtin table is consulted     *)
(* only when no environment of the chain has it; when neither has it the    *)
(* result is the Error "identifier not found: <name>".                      *)
(***************************************************************************)
C6_IdentifierResolution ==
    \A j \in Exits :
        Log[j].node.kind = "Identifier" =>
            /\ Log[j].val = Resolve(Log[j].heap0, Log[j].env, Log[j].node.Value)
            /\ Log[j].heap = Log[j].heap0

\* The name of a builtin has been looked up in the environment of a call
\* that does not bind it, an environment further up the chain binds it, and
\* the identifier evaluated to that binding and not to the builtin.
C6_Witness ==
    \E j \in BodyLookups :
        LET name == Log[j].node.Value
            heap == Log[j].heap0
        IN /\ name \in DOMAIN builtins
           /\ name \notin DOMAIN heap[Log[j].env].store
           /\ \E e \in 1..Len(heap) :
                 /\ e # Log[j].env
                 /\ name \in DOMAIN heap[e].store
                 /\ Log[j].val = heap[e].store[name]
           /\ Log[j].val # builtins[name]

(***************************************************************************)
(* C7.  Parameter binding and every let executed during a function call     *)
(* write only to environments created by the call: when the call            *)
(* expression has its value, every environment that existed when            *)
(* applyFunction was entered, the defining and the caller's environment     *)
(* among them, holds the bindings it held then.                             *)
(***************************************************************************)
\* the exit entry of the call expression that apply entry a serves
CallExitOf(a) ==
    {j \in Exits : j > a /\ EnterOf(j) = CallOf(a)}

C7_CallWritesOwnEnvOnly ==
    \A a \in Applies :
        /\ \A e \in 1..Len(Log[a].heap0) : Log[a].heap[e] = Log[a].heap0[e]
        /\ \A j \in CallExitOf(a) :
              \A e \in 1..Len(Log[a].heap0) : Log[j].heap[e] = Log[a].heap0[e]

\* A call has returned whose environment binds a name that the function's
\* defining environment and the caller's environment bind too, to three
\* different values, and those two environments are different.
C7_Witness ==
    \E a \in Applies :
        \E j \in CallExitOf(a) :
            LET own == Log[j].heap[Log[a].env].store
                defining == Log[j].heap[Log[a].fn.Env].store
                caller == Log[j].heap[Log[CallOf(a)].env].store
            IN /\ Log[a].fn.Env # Log[CallOf(a)].env
               /\ \E name \in DOMAIN own \cap DOMAIN defining \cap DOMAIN caller :
                     /\ own[name] # defining[name]
                     /\ own[name] # caller[name]
                     /\ defining[name] # caller[name]

(***************************************************************************)
(* If expressions in the history.                                           *)
(***************************************************************************)
IfExits == {j \in Exits : Log[j].node.kind = "IfExpression"}

\* the conditions of an if expression in source order, and their
\* consequences
ConditionsOf(ife) ==
    <<ife.Condition>> \o [i \in 1..Len(ife.ElseIfs) |-> ife.ElseIfs[i].Condition]

ConsequencesOf(ife) ==
    <<ife.Consequence>>
        \o [i \in 1..Len(ife.ElseIfs) |-> ife.ElseIfs[i].Consequence]

\* the conditions and the blocks evaluated by the if expression of exit j
ConditionExits(j) == {c \in ChildExits(j) : Log[c].node.kind # "BlockStatement"}

BlockExits(j) == {c \in ChildExits(j) : Log[c].node.kind = "BlockStatement"}

\* the n-th element of a set of numbers
Nth(S, n) == CHOOSE x \in S : Cardinality({y \in S : y < x}) = n - 1

\* everything but the FALSE singleton and the NULL singleton is truthy
Truthy(obj) == obj # NULL /\ obj # FALSE_

\* the if expression of exit j evaluated its first k conditions in source
\* order, the first k - 1 are not truthy, and it evaluated one block, the
\* consequence of the k-th, whose value is its value, unless none is truthy:
\* then it evaluated the else block, or no block and its value is NULL
OneBranch(j) ==
    LET ife == Log[j].node
        conds == ConditionExits(j)
        blocks == BlockExits(j)
        k == Cardinality(conds)
    IN /\ 1 <= k /\ k <= Len(ife.ElseIfs) + 1
       /\ \A i \in 1..k : Log[Nth(conds, i)].node = ConditionsOf(ife)[i]
       /\ \A i \in 1..(k - 1) : ~Truthy(Log[Nth(conds, i)].val)
       /\ Cardinality(blocks) <= 1
       /\ \A b \in blocks : \A c \in conds : c < b
       /\ IF Truthy(Log[Nth(conds, k)].val)
          THEN \E b \in blocks : /\ Log[b].node = ConsequencesOf(ife)[k]
                                 /\ Log[j].val = Log[b].val
          ELSE /\ k = Len(ife.ElseIfs) + 1
               /\ IF ife.Alternative # NilNode
                  THEN \E b \in blocks : /\ Log[b].node = ife.Alternative
                                         /\ Log[j].val = Log[b].val
                  ELSE blocks = {} /\ Log[j].val = NULL

InfixEnters ==
    {i \in 1..Len(Log) : IsEnter(i) /\ Log[i].node.kind = "InfixExpression"}

\* the exits of the calls of Eval made directly by the call entered at i
OperandExits(i) == {c \in Exits : ParentOf(c) = i}

Numeric(obj) == obj.type \in {INTEGER_OBJ, FLOAT_OBJ}

\* both operands of the infix expression entered at i have a value that is
\* no Error, and they are neither both numeric nor both strings
NoHandler(i) ==
    /\ Cardinality(OperandExits(i)) = 2
    /\ LET left == Log[Nth(OperandExits(i), 1)].val
           right == Log[Nth(OperandExits(i), 2)].val
       IN /\ ~isError(left) /\ ~isError(right)
          /\ ~(Numeric(left) /\ Numeric(right))
          /\ ~(left.type = STRING_OBJ /\ right.type = STRING_OBJ)

\* the same object: objects are told apart by their address
Identical(left, right) ==
    /\ "addr" \in DOMAIN left
    /\ "addr" \in DOMAIN right
    /\ left.addr = right.addr

\* the value C10 gives left op right
FallbackValue(op, left, right) ==
    IF op = "==" THEN (IF Identical(left, right) THEN TRUE_ ELSE FALSE_)
    ELSE IF op = "!=" THEN (IF Identical(left, right) THEN FALSE_ ELSE TRUE_)
    ELSE IF left.type # right.type
    THEN Error("type mismatch: " \o left.type \o " " \o op \o " " \o right.type)
    ELSE Error("unknown operator: " \o left.type \o " " \o op \o " " \o right.type)

\* the infix expression entered at i has the value C10 gives it
HasFallbackValue(i) ==
    \E j \in Exits :
        /\ EnterOf(j) = i
        /\ Log[j].val = FallbackValue(Log[i].node.Operator,
                                      Log[Nth(OperandExits(i), 1)].val,
                                      Log[Nth(OperandExits(i), 2)].val)

(***************************************************************************)
(* C10.  For infix operands that are neither both numeric nor both          *)
(* strings, == and != yield the singleton Boolean of the operands'          *)
(* identity and never an Error, and every other operator yields the Error   *)
(* "type mismatch: L op R" when the operand types differ and "unknown       *)
(* operator: L op R" when they are the same.                                *)
(***************************************************************************)
C10_InfixFallback == \A i \in InfixEnters : NoHandler(i) => HasFallbackValue(i)

\* C10 for operands that are objects: neither operand expression evaluated
\* to nil.  The singletons equal themselves, an object reached through two
\* identifiers equals itself, two separately built arrays or functions are
\* unequal.
C10_FallbackOnObjects ==
    /\ \A i \in InfixEnters :
          (/\ NoHandler(i)
           /\ \A c \in OperandExits(i) : ~isNil(Log[c].val)) => HasFallbackValue(i)
    /\ \A e \in {Bool(TRUE), Bool(FALSE), NullExpr, Id("arr"), Id("f"), Id("len")} :
          /\ Returned(InfixProgram(e, "==", e), TRUE_)
          /\ Returned(InfixProgram(e, "!=", e), FALSE_)
    /\ \A e \in {OneArray, Fn(<<>>, <<>>)} :
          /\ Returned(InfixProgram(e, "==", e), FALSE_)
          /\ Returned(InfixProgram(e, "!=", e), TRUE_)
    /\ Returned(InfixProgram(Id("arr"), "==", OneArray), FALSE_)
    /\ Returned(InfixProgram(Id("f"), "==", Fn(<<>>, <<>>)), FALSE_)

(***************************************************************************)
(* Integer arithmetic (C11).  Arith(e) is the value standard integer        *)
(* arithmetic gives the expression e: def says that it has one (no division *)
(* by zero), fits that it and the value of every subexpression lie between  *)
(* MinInt64 and MaxInt64.                                                   *)
(***************************************************************************)
RECURSIVE IsArithmetic(_)
IsArithmetic(e) ==
    CASE e.kind = "IntegerLiteral" -> TRUE
      [] e.kind = "PrefixExpression" -> e.Operator = "-" /\ IsArithmetic(e.Right)
      [] e.kind = "InfixExpression" ->
           /\ e.Operator \in ArithmeticOperators
           /\ IsArithmetic(e.Left)
           /\ IsArithmetic(e.Right)
      [] OTHER -> FALSE

\* the quotient truncated toward zero: q * b lies between 0 and a, less
\* than one b away from a
Quotient(a, b) ==
    CHOOSE q \in (-Abs(a))..Abs(a) :
        /\ Abs(a - q * b) < Abs(b)
        /\ (0 <= q * b /\ q * b <= a) \/ (a <= q * b /\ q * b <= 0)

InInt64(n) == MinInt64 <= n /\ n <= MaxInt64

RECURSIVE Arith(_)
Arith(e) ==
    CASE e.kind = "IntegerLiteral" ->
           [def |-> TRUE, fits |-> InInt64(e.Value), v |-> e.Value]
      [] e.kind = "PrefixExpression" ->
           LET r == Arith(e.Right)
           IN [def |-> r.def, fits |-> r.fits /\ InInt64(-r.v), v |-> -r.v]
      [] e.kind = "InfixExpression" ->
           LET l == Arith(e.Left)
               r == Arith(e.Right)
               def == l.def /\ r.def /\ (e.Operator \in {"/", "%"} => r.v # 0)
               v == IF ~def THEN 0
                    ELSE CASE e.Operator = "+" -> l.v + r.v
                           [] e.Operator = "-" -> l.v - r.v
                           [] e.Operator = "*" -> l.v * r.v
                           [] e.Operator = "/" -> Quotient(l.v, r.v)
                           [] e.Operator = "%" -> l.v - Quotient(l.v, r.v) * r.v
           IN [def |-> def, fits |-> l.fits /\ r.fits /\ InInt64(v), v |-> v]

\* the evaluations of integer expressions that have a value
ArithmeticExits ==
    {j \in Exits : IsArithmetic(Log[j].node) /\ Arith(Log[j].node).def}

(***************************************************************************)
(* C11.  For Integer operands + - * give the integer sum, difference and    *)
(* product, / the quotient truncated toward zero and % the remainder with   *)
(* a == (a / b) * b + (a % b) for b != 0; an expression built from these    *)
(* operators, unary minus and parentheses evaluates to the value standard   *)
(* integer arithmetic gives.                                                *)
(***************************************************************************)
C11_IntegerArithmetic ==
    \A j \in ArithmeticExits : Log[j].val = Integer(Arith(Log[j].node).v)

\* C11 where standard arithmetic stays within the range of an Integer:
\* every subexpression has a value between MinInt64 and MaxInt64.  Outside
\* it the result is the standard one reduced modulo 2^WordBits.
C11_IntegerArithmeticInRange ==
    /\ \A j \in ArithmeticExits :
          Arith(Log[j].node).fits => Log[j].val = Integer(Arith(Log[j].node).v)
    /\ \A j \in ArithmeticExits :
          LET e == Log[j].node
          IN (/\ e.kind = "InfixExpression"
              /\ Arith(e.Left).fits
              /\ Arith(e.Right).fits)
                 => Log[j].val = Integer(Int64(Arith(e).v))
    /\ Returned(<<ES(FiftyExpr)>>, Integer(50))

\* a negative dividend was divided with a remainder, and the quotient was
\* rounded toward zero
C11_Witness ==
    \E j \in ArithmeticExits :
        LET e == Log[j].node
        IN /\ e.kind = "InfixExpression"
           /\ e.Operator = "/"
           /\ Arith(e).fits
           /\ Arith(e.Left).v < 0
           /\ Arith(e).v * Arith(e.Right).v # Arith(e.Left).v
           /\ Log[j].val = Integer(Arith(e).v)

(***************************************************************************)
(* Integer against Float (C12).                                             *)
(***************************************************************************)
\* the evaluations of an infix expression with its two operand values
InfixExits == {j \in Exits : Log[j].node.kind = "InfixExpression"
                              /\ Cardinality(ChildExits(j)) = 2}

LeftOf(j) == Log[Nth(ChildExits(j), 1)].val

RightOf(j) == Log[Nth(ChildExits(j), 2)].val

IsInteger(obj) == ~isNil(obj) /\ obj.type = INTEGER_OBJ

IsFloat(obj) == ~isNil(obj) /\ obj.type = FLOAT_OBJ

\* float(i) for an Integer, the Float itself otherwise
Promoted(obj) == IF IsInteger(obj) THEN Float(IntToFloat(obj.Value)) ELSE obj

\* the evaluations of i op f and of f op i
MixedExits ==
    {j \in InfixExits : \/ IsInteger(LeftOf(j)) /\ IsFloat(RightOf(j))
                        \/ IsFloat(LeftOf(j)) /\ IsInteger(RightOf(j))}

\* j has the value of the Float operation on the promoted operands, left
\* operand on the left
PromotedInPlace(j) ==
    Log[j].val = evalFloatInfixExpression(Log[j].node.Operator,
                                          Promoted(LeftOf(j)), Promoted(RightOf(j)))

(***************************************************************************)
(* C12.  For an Integer i and a Float f, i op f evaluates to float(i) op f  *)
(* and f op i to f op float(i), for every operator in + - * / % < > == !=:  *)
(* the integer is promoted and the operands keep their positions.           *)
(***************************************************************************)
C12_IntegerPromoted == \A j \in MixedExits : PromotedInPlace(j)

\* C12 holds with the Float on the left, and either way round for the
\* operators that commute
C12_FloatOnLeftOrCommutes ==
    \A j \in MixedExits :
        (IsFloat(LeftOf(j)) \/ Log[j].node.Operator \in {"+", "*", "==", "!="})
            => PromotedInPlace(j)

\* with the Integer on the left the operands are exchanged: i op f has the
\* value of f op float(i)
C12_IntegerOnLeftExchanged ==
    \A j \in MixedExits :
        IsInteger(LeftOf(j)) =>
            Log[j].val = evalFloatInfixExpression(Log[j].node.Operator,
                                                  RightOf(j), Promoted(LeftOf(j)))

(***************************************************************************)
(* The ! operator (C13).                                                    *)
(***************************************************************************)
\* the evaluations of !e whose operand evaluated to an object that is no
\* Error
BangExits ==
    {j \in Exits : /\ Log[j].node.kind = "PrefixExpression"
                   /\ Log[j].node.Operator = "!"
                   /\ \E c \in ChildExits(j) :
                         ~isNil(Log[c].val) /\ ~isError(Log[c].val)}

OperandOf(j) == Log[Nth(ChildExits(j), 1)].val

\* a Boolean false, whichever object holds it
IsBooleanFalse(obj) == obj.type = BOOLEAN_OBJ /\ obj.Value = FALSE

IsSingleton(obj) == obj \in {NULL, TRUE_, FALSE_}

(***************************************************************************)
(* C13.  !e evaluates to the TRUE singleton exactly when e evaluates to a   *)
(* Boolean false or to Null, and to the FALSE singleton for every other     *)
(* value (Integer 0 included); this holds for every expression e that       *)
(* yields a Boolean, a string comparison included.                          *)
(***************************************************************************)
C13_BangOperator ==
    \A j \in BangExits :
        Log[j].val = IF IsBooleanFalse(OperandOf(j)) \/ OperandOf(j).type = NULL_OBJ
                     THEN TRUE_ ELSE FALSE_

\* C13 for every operand but a Boolean that is neither singleton: there !e
\* is the FALSE singleton, whatever the Boolean holds
C13_BangOnSharedBooleans ==
    \A j \in BangExits :
        LET v == OperandOf(j)
        IN Log[j].val =
              IF v.type = BOOLEAN_OBJ /\ ~IsSingleton(v) THEN FALSE_
              ELSE IF IsBooleanFalse(v) \/ v.type = NULL_OBJ THEN TRUE_
              ELSE FALSE_

(***************************************************************************)
(* Booleans are shared (C14).                                               *)
(***************************************************************************)
\* the evaluations that gave a Boolean
BooleanExits ==
    {j \in Exits : ~isNil(Log[j].val) /\ Log[j].val.type = BOOLEAN_OBJ}

\* c == true with c a comparison that gave a Boolean true
TrueComparedWithTrue ==
    {j \in InfixExits : /\ Log[j].node.Operator = "=="
                        /\ Log[j].node.Right = Bool(TRUE)
                        /\ Log[j].node.Left.kind = "InfixExpression"
                        /\ LeftOf(j).type = BOOLEAN_OBJ
                        /\ LeftOf(j).Value = TRUE}

\* if expressions whose first condition is a comparison that gave a Boolean
\* false
IfOnFalseComparison ==
    {j \in IfExits : /\ Log[j].node.Condition.kind = "InfixExpression"
                     /\ LET c == Log[Nth(ChildExits(j), 1)].val
                        IN c.type = BOOLEAN_OBJ /\ c.Value = FALSE}

(***************************************************************************)
(* C14.  Every Boolean value produced by evaluation is one of the two       *)
(* shared singleton instances, so (e1 == e2) == true evaluates to true      *)
(* whenever e1 == e2 is true, and a comparison that is false is never       *)
(* truthy when used as an if condition.                                     *)
(***************************************************************************)
C14_BooleansAreSingletons ==
    /\ \A j \in BooleanExits : Log[j].val \in {TRUE_, FALSE_}
    /\ \A j \in TrueComparedWithTrue : Log[j].val = TRUE_
    /\ \A j \in IfOnFalseComparison :
          \A b \in BlockExits(j) : Log[b].node # Log[j].node.Consequence

\* the evaluations of == on two strings
StringEqualityExits ==
    {j \in InfixExits : /\ Log[j].node.Operator = "=="
                        /\ LeftOf(j).type = STRING_OBJ
                        /\ RightOf(j).type = STRING_OBJ}

\* C14 but for == on two strings: a Boolean that is no singleton is the
\* object such an evaluation made, and every such evaluation makes one
C14_SingletonsButStringEquality ==
    /\ \A j \in BooleanExits :
          \/ Log[j].val \in {TRUE_, FALSE_}
          \/ \E i \in StringEqualityExits : Log[i].val = Log[j].val
    /\ \A i \in StringEqualityExits : Log[i].val \notin {TRUE_, FALSE_}

(***************************************************************************)
(* ReturnValue wrappers (C15).                                              *)
(***************************************************************************)
IsWrapper(obj) == ~isNil(obj) /\ obj.type = RETURN_VALUE_OBJ

\* obj is a wrapper or an array with a wrapper among its elements
HoldsWrapper(obj) ==
    \/ IsWrapper(obj)
    \/ /\ ~isNil(obj)
       /\ obj.type = ARRAY_OBJ
       /\ \E k \in DOMAIN obj.Elements : IsWrapper(obj.Elements[k])

\* the environment the program was evaluated in
GlobalEnv == st.heap[1]

(***************************************************************************)
(* C15.  No ReturnValue wrapper is ever visible outside the evaluator: for  *)
(* every Program the value Eval returns is not a ReturnValue wrapper, and   *)
(* no array element of that result and no environment binding left behind   *)
(* holds one.                                                               *)
(***************************************************************************)
C15_NoWrapperVisible ==
    status = "returned" =>
        /\ ~HoldsWrapper(out)
        /\ \A n \in DOMAIN GlobalEnv.store : ~HoldsWrapper(GlobalEnv.store[n])

\* C15 for the programs all of whose returns are statements of a block: a
\* wrapper gets out only where an if block that returns is used as an
\* operand
C15_InStatementPosition == AllInStatementPosition => C15_NoWrapperVisible

(***************************************************************************)
(* Array indexing (C16).                                                    *)
(***************************************************************************)
\* the index expressions entered whose operands evaluated to an Array and
\* to an Integer
ArrayIndexEnters ==
    {i \in 1..Len(Log) :
        /\ IsEnter(i)
        /\ Log[i].node.kind = "IndexExpression"
        /\ Cardinality(OperandExits(i)) = 2
        /\ LET left == Log[Nth(OperandExits(i), 1)].val
               index == Log[Nth(OperandExits(i), 2)].val
           IN /\ ~isNil(left) /\ left.type = ARRAY_OBJ
              /\ ~isNil(index) /\ index.type = INTEGER_OBJ}

ArrayAt(i) == Log[Nth(OperandExits(i), 1)].val

IndexAt(i) == Log[Nth(OperandExits(i), 2)].val.Value

\* what C16 gives the index expression entered at i
IndexedValue(i) ==
    IF 0 <= IndexAt(i) /\ IndexAt(i) < Len(ArrayAt(i).Elements)
    THEN ArrayAt(i).Elements[IndexAt(i) + 1]
    ELSE NULL

(***************************************************************************)
(* C16.  Indexing an Array of length n with an Integer i evaluates to       *)
(* element i when 0 <= i < n and to the NULL singleton when i < 0 or        *)
(* i >= n (also for the empty array); it never yields an Error and never    *)
(* crashes.                                                                 *)
(***************************************************************************)
C16_ArrayIndex ==
    /\ \A i \in ArrayIndexEnters :
          \E j \in Exits : /\ EnterOf(j) = i
                           /\ Log[j].val = IndexedValue(i)
                           /\ ~isError(Log[j].val)
    /\ program \in IndexPrograms => status # "panicked"

\* an index past the end of an array that is not empty gave NULL
C16_Witness ==
    \E i \in ArrayIndexEnters :
        /\ Len(ArrayAt(i).Elements) > 0
        /\ IndexAt(i) >= Len(ArrayAt(i).Elements)
        /\ \E j \in Exits : EnterOf(j) = i /\ Log[j].val = NULL

(***************************************************************************)
(* Order of evaluation in a call (C17).                                     *)
(***************************************************************************)
CallEnters ==
    {i \in 1..Len(Log) : IsEnter(i) /\ Log[i].node.kind = "CallExpression"}

\* the evaluations of the callee and of the arguments of the call entered
\* at i (the body runs one frame up)
CallOperands(i) == {c \in OperandExits(i) : Log[c].frame = Log[i].frame}

\* the body of a function was run for the call entered at i
BodyRan(i) == \E a \in Applies : CallOf(a) = i

\* the call entered at i was evaluated in the order C17 states
InCallOrder(i) ==
    LET ops == CallOperands(i)
        n == Cardinality(ops)
        node == Log[i].node
    IN /\ n >= 1 => Log[Nth(ops, 1)].node = node.Function
       /\ \A k \in 2..n :
             /\ k - 1 <= Len(node.Arguments)
             /\ Log[Nth(ops, k)].node = node.Arguments[k - 1]
             /\ EnterOf(Nth(ops, k)) > Nth(ops, k - 1)
       /\ \A k \in 2..n :
             isError(Log[Nth(ops, k)].val) =>
                /\ n = k
                /\ ~BodyRan(i)
                /\ \E j \in Exits : EnterOf(j) = i /\ Log[j].val = Log[Nth(ops, k)].val
       /\ (/\ \E j \in Exits : EnterOf(j) = i
           /\ \A c \in ops : ~isError(Log[c].val)) => n = 1 + Len(node.Arguments)

(***************************************************************************)
(* C17.  In a call expression the callee is evaluated first, then the       *)
(* arguments strictly left to right; at the first argument that evaluates   *)
(* to an Error no later argument is evaluated, the function body (or        *)
(* builtin) is not run, and the call evaluates to that Error.               *)
(***************************************************************************)
C17_CallOrder == \A i \in CallEnters : InCallOrder(i)

\* a call of a function with three arguments whose second is the first to
\* fail: two arguments were evaluated and the call has the Error
C17_Witness ==
    \E i \in CallEnters :
        /\ Len(Log[i].node.Arguments) >= 3
        /\ Cardinality(CallOperands(i)) = 3
        /\ Log[Nth(CallOperands(i), 1)].val.type = FUNCTION_OBJ
        /\ ~isError(Log[Nth(CallOperands(i), 2)].val)
        /\ isError(Log[Nth(CallOperands(i), 3)].val)
        /\ \E j \in Exits :
              EnterOf(j) = i /\ Log[j].val = Log[Nth(CallOperands(i), 3)].val

(***************************************************************************)
(* The builtins (C18).                                                      *)
(***************************************************************************)
\* the calls entered whose callee evaluated to a builtin and all of whose
\* arguments were evaluated, none to an Error
BuiltinCalls ==
    {i \in CallEnters :
        /\ Cardinality(CallOperands(i)) = 1 + Len(Log[i].node.Arguments)
        /\ LET fn == Log[Nth(CallOperands(i), 1)].val
           IN ~isNil(fn) /\ fn.type = BUILTIN_OBJ
        /\ \A c \in CallOperands(i) : ~isError(Log[c].val)}

BuiltinAt(i) == Log[Nth(CallOperands(i), 1)].val.Name

ArgsAt(i) ==
    [k \in 1..Len(Log[i].node.Arguments) |-> Log[Nth(CallOperands(i), k + 1)].val]

\* the Error for n arguments, as the tests word it
WrongCount(name, n) ==
    IF name = "len"
    THEN Error("wrong number of arguments. got=" \o ToString(n) \o ", expected=1")
    ELSE Error("wrong number of arguments.\nexpected=1, got=" \o ToString(n))

\* the Error for an argument of type t, as the tests word it
WrongType(name, t) ==
    IF name = "len"
    THEN Error("argument to " \o BQ \o "len" \o BQ \o " not supported, got " \o t)
    ELSE Error("argument to \"" \o name \o "\" must be an ARRAY type.\ngot " \o t)

Supported(name, arg) ==
    arg.type = ARRAY_OBJ \/ (name = "len" /\ arg.type = STRING_OBJ)

\* what C18 gives the builtin name called with arguments args that are
\* objects
BuiltinResult(name, args) ==
    IF Len(args) # 1 THEN WrongCount(name, Len(args))
    ELSE IF ~Supported(name, args[1]) THEN WrongType(name, args[1].type)
    ELSE IF name = "len"
    THEN Integer(IF args[1].type = ARRAY_OBJ THEN Len(args[1].Elements)
                 ELSE Len(args[1].Value))
    ELSE IF args[1].Elements = <<>> THEN NULL
    ELSE IF name = "first" THEN Head(args[1].Elements)
    ELSE args[1].Elements[Len(args[1].Elements)]

\* the call entered at i was left with the value C18 gives it
BuiltinAnswers(i) ==
    \E j \in Exits :
        /\ EnterOf(j) = i
        /\ (Len(ArgsAt(i)) # 1 \/ ~isNil(ArgsAt(i)[1]))
              => Log[j].val = BuiltinResult(BuiltinAt(i), ArgsAt(i))

(***************************************************************************)
(* C18.  Each registered builtin checks its argument count before its       *)
(* argument types and never crashes: with the wrong number of arguments it  *)
(* returns an Error citing the count received, with an argument of an       *)
(* unsupported type an Error naming that type, and otherwise len returns    *)
(* the length of a string or an array as an Integer and first/last the      *)
(* first/last element of an array, or the NULL singleton for an empty one.  *)
(***************************************************************************)
C18_Builtins == \A i \in BuiltinCalls : BuiltinAnswers(i)

\* C18 for the calls whose one argument, if they have one, is an object
\* (its expression did not evaluate to nil)
C18_BuiltinsOnObjects ==
    \A i \in BuiltinCalls :
        (Len(ArgsAt(i)) # 1 \/ ~isNil(ArgsAt(i)[1])) => BuiltinAnswers(i)

(***************************************************************************)
(* The base library (C19).                                                  *)
(***************************************************************************)
\* the evaluations of a name of the base library that is bound nowhere in
\* the environment chain
UnboundLibraryExits ==
    {j \in Exits : /\ Log[j].node.kind = "Identifier"
                   /\ Log[j].node.Value \in BaseLibrary
                   /\ ~Get(Log[j].heap0, Log[j].env, Log[j].node.Value).ok}

\* an array of Integers, whatever its address
IsIntArray(obj, q) ==
    /\ ~isNil(obj)
    /\ obj.type = ARRAY_OBJ
    /\ obj.Elements = [k \in DOMAIN q |-> Integer(q[k])]

(***************************************************************************)
(* C19.  Each of the names len, first, last, rest, push and pop, when not   *)
(* bound in the environment chain, evaluates to a Builtin function and      *)
(* never to an "identifier not found" Error; rest([1, 2, 3]) is [2, 3],     *)
(* rest([1]) is [], push([1], 2) is [1, 2], pop([1, 2]) is 2 and pop([]) is *)
(* the Error "cannot pop an empty array".                                   *)
(***************************************************************************)
C19_BaseLibrary ==
    /\ \A j \in UnboundLibraryExits : Log[j].val.type = BUILTIN_OBJ
    /\ status # "running" =>
          /\ program = <<ES(Call(Id("rest"), <<Ints(<<1, 2, 3>>)>>))>>
                => IsIntArray(out, <<2, 3>>)
          /\ program = <<ES(Call(Id("rest"), <<Ints(<<1>>)>>))>>
                => IsIntArray(out, <<>>)
          /\ program = <<ES(Call(Id("push"), <<Ints(<<1>>), IntLit(2)>>))>>
                => IsIntArray(out, <<1, 2>>)
          /\ program = <<ES(Call(Id("pop"), <<Ints(<<1, 2>>)>>))>>
                => out = Integer(2)
          /\ program = <<ES(Call(Id("pop"), <<Ints(<<>>)>>))>>
                => out = Error("cannot pop an empty array")

\* what holds instead: len, first and last are builtins, and rest, push and
\* pop are not found
C19_ThreeOfSix ==
    \A j \in UnboundLibraryExits :
        Log[j].val = IF Log[j].node.Value \in {"len", "first", "last"}
                     THEN builtins[Log[j].node.Value]
                     ELSE Error("identifier not found: " \o Log[j].node.Value)

(***************************************************************************)
(* The parser (src/src/parser/parser.go).  It reads the tokens the lexer    *)
(* hands out: tokens is the sequence of tokens before EOF, and NextToken    *)
(* returns EOF from its end on.  A token's Literal is the text it was read  *)
(* from, a sequence of characters.  The state of a Parser is                *)
(*   tokens, cur  the token sequence and the position of curToken in it     *)
(*                (peekToken is the token after it),                        *)
(*   errors       the messages collected so far.                            *)
(* A parse function returns the node it built and the Parser after it; a    *)
(* statement parser also says whether it came back at all.                  *)
(***************************************************************************)
Token(type, literal) == [Type |-> type, Literal |-> literal]

\* a text as a string
RECURSIVE Str(_)
Str(text) == IF text = <<>> THEN "" ELSE Head(text) \o Str(Tail(text))

LOWEST == 1

EQUALS == 2

LESSGREATER == 3

SUM == 4

PRODUCT == 5

PREFIX == 6

precedences ==
    [t \in {"==", "!=", "<", ">", "+", "-", "/", "*"} |->
        CASE t \in {"==", "!="} -> EQUALS
          [] t \in {"<", ">"} -> LESSGREATER
          [] t \in {"+", "-"} -> SUM
          [] t \in {"/", "*"} -> PRODUCT]

\* the token types a prefix / an infix parse function is registered for
prefixParseFns == {"IDENT", "INT", "!", "-", "TRUE", "FALSE"}

infixParseFns == {"+", "-", "/", "*", "==", "!=", "<", ">"}

NewParser(tokens) == [tokens |-> tokens, cur |-> 1, errors |-> <<>>]

\* the i-th token the lexer returns
TokenAt(tokens, i) == IF i <= Len(tokens) THEN tokens[i] ELSE Token("EOF", <<>>)

curToken(p) == TokenAt(p.tokens, p.cur)

peekToken(p) == TokenAt(p.tokens, p.cur + 1)

nextToken(p) == [p EXCEPT !.cur = @ + 1]

curTokenIs(p, t) == curToken(p).Type = t

peekTokenIs(p, t) == peekToken(p).Type = t

peekPrecedence(p) ==
    IF peekToken(p).Type \in DOMAIN precedences THEN precedences[peekToken(p).Type]
    ELSE LOWEST

curPrecedence(p) ==
    IF curToken(p).Type \in DOMAIN precedences THEN precedences[curToken(p).Type]
    ELSE LOWEST

addError(p, msg) == [p EXCEPT !.errors = Append(@, msg)]

noPrefixParseFnError(p, t) ==
    addError(p, "no prefix parse function for " \o t \o " found")

peekError(p, t) ==
    addError(p, "expected next token to be " \o t \o ", got " \o peekToken(p).Type
                \o " instead")

\* an expectPeek that moves on to the next token also when it fails
expectPeek_Consuming(p, t) ==
    IF peekTokenIs(p, t) THEN [ok |-> TRUE, p |-> nextToken(p)]
    ELSE [ok |-> FALSE, p |-> nextToken(peekError(p, t))]

\* (ok, Parser after it)
expectPeek(p, t) ==
    IF peekTokenIs(p, t) THEN [ok |-> TRUE, p |-> nextToken(p)]
    ELSE [ok |-> FALSE, p |-> peekError(p, t)]

Parsed(node, p) == [node |-> node, p |-> p]

DigitChars == <<"0", "1", "2", "3", "4", "5", "6", "7", "8", "9">>

IsDigitChar(c) == \E i \in DOMAIN DigitChars : DigitChars[i] = c

DigitValue(c) == (CHOOSE i \in DOMAIN DigitChars : DigitChars[i] = c) - 1

RECURSIVE ReadDigits(_, _, _)
\* the number the digits of text are in the given base, after acc
ReadDigits(text, base, acc) ==
    IF text = <<>> THEN acc
    ELSE ReadDigits(Tail(text), base, acc * base + DigitValue(Head(text)))

\* strconv.ParseInt(text, 0, 64) for a text the lexer read as a number, a run
\* of digits: octal after a leading 0, decimal otherwise; (value, ok)
ParseInt(text) ==
    LET octal == Len(text) > 1 /\ Head(text) = "0"
        base == IF octal THEN 8 ELSE 10
        digits == IF octal THEN Tail(text) ELSE text
        syntax == /\ text # <<>>
                  /\ \A i \in DOMAIN digits :
                        IsDigitChar(digits[i]) /\ DigitValue(digits[i]) < base
        value == ReadDigits(digits, base, 0)
    IN IF syntax /\ value <= MaxInt64 THEN [value |-> value, ok |-> TRUE]
       ELSE [value |-> 0, ok |-> FALSE]

\* strconv.ParseBool; (value, ok)
ParseBool(text) ==
    IF Str(text) \in {"1", "t", "T", "TRUE", "true", "True"}
    THEN [value |-> TRUE, ok |-> TRUE]
    ELSE IF Str(text) \in {"0", "f", "F", "FALSE", "false", "False"}
    THEN [value |-> FALSE, ok |-> TRUE]
    ELSE [value |-> FALSE, ok |-> FALSE]

parseIdentifier(p) == Parsed(Identifier(Str(curToken(p).Literal)), p)

parseIntegerLiteral(p) ==
    LET parsed == ParseInt(curToken(p).Literal)
    IN IF ~parsed.ok
       THEN Parsed(NilNode,
                   addError(p, "could not parse \"" \o Str(curToken(p).Literal)
                               \o "\" as integer"))
       ELSE Parsed(IntegerLiteral(parsed.value), p)

parseBoolean(p) ==
    LET parsed == ParseBool(curToken(p).Literal)
    IN IF ~parsed.ok
       THEN Parsed(NilNode,
                   addError(p, "could not parse \"" \o Str(curToken(p).Literal)
                               \o "\" as boolean"))
       ELSE Parsed(BooleanLiteral(parsed.value), p)

RECURSIVE parseExpression(_, _)
RECURSIVE parseExpressionLoop(_, _, _)

parsePrefixExpression(p) ==
    LET right == parseExpression(nextToken(p), PREFIX)
    IN Parsed(PrefixExpression(Str(curToken(p).Literal), right.node), right.p)

\* Mutant of parseInfixExpression: the right operand is parsed one level
\* below the operator's precedence.
parseInfixExpression_RightNesting(p, left) ==
    LET right == parseExpression(nextToken(p), curPrecedence(p) - 1)
    IN Parsed(InfixExpression(left, Str(curToken(p).Literal), right.node), right.p)

parseInfixExpression(p, left) ==
    LET precedence == curPrecedence(p)
        right == parseExpression(nextToken(p), precedence)
    IN Parsed(InfixExpression(left, Str(curToken(p).Literal), right.node), right.p)

\* the for loop of parseExpression, leftExp the expression parsed so far
parseExpressionLoop(p, precedence, leftExp) ==
    IF ~peekTokenIs(p, ";") /\ precedence < peekPrecedence(p)
    THEN IF peekToken(p).Type \notin infixParseFns THEN Parsed(leftExp, p)
         ELSE LET infix == parseInfixExpression(nextToken(p), leftExp)
              IN parseExpressionLoop(infix.p, precedence, infix.node)
    ELSE Parsed(leftExp, p)

parseExpression(p, precedence) ==
    LET t == curToken(p).Type
        leftExp == CASE t = "IDENT" -> parseIdentifier(p)
                     [] t = "INT" -> parseIntegerLiteral(p)
                     [] t \in {"!", "-"} -> parsePrefixExpression(p)
                     [] t \in {"TRUE", "FALSE"} -> parseBoolean(p)
    IN IF t \notin prefixParseFns THEN Parsed(NilNode, noPrefixParseFnError(p, t))
       ELSE parseExpressionLoop(leftExp.p, precedence, leftExp.node)

\* a statement parser's result: back says that it returned
Statement(node, p) == [node |-> node, p |-> p, back |-> TRUE]

\* for !p.curTokenIs(token.SEMICOLON) { p.nextToken() }: the loop ends at
\* the next semicolon and never ends when there is none, since the lexer
\* goes on returning EOF
skipToSemicolon(node, p) ==
    LET here == {i \in p.cur..Len(p.tokens) : p.tokens[i].Type = ";"}
    IN IF here = {} THEN [node |-> node, p |-> p, back |-> FALSE]
       ELSE Statement(node, [p EXCEPT !.cur = CHOOSE i \in here :
                                                  \A j \in here : i <= j])

\* a nil *ast.LetStatement: parseStatement hands it on as an ast.Statement,
\* which is then not equal to nil
NilLetStatement == [kind |-> "LetStatement", nil |-> TRUE]

parseExpressionStatement(p) ==
    LET expression == parseExpression(p, LOWEST)
    IN Statement(ExpressionStatement(expression.node),
                 IF peekTokenIs(expression.p, ";") THEN nextToken(expression.p)
                 ELSE expression.p)

parseReturnStatement(p) == skipToSemicolon(ReturnStatement(NilNode), nextToken(p))

parseLetStatement(p) ==
    LET ident == expectPeek(p, "IDENT")
        assign == expectPeek(ident.p, "=")
    IN IF ~ident.ok THEN Statement(NilLetStatement, ident.p)
       ELSE IF ~assign.ok THEN Statement(NilLetStatement, assign.p)
       ELSE skipToSemicolon(LetStatement(Str(curToken(ident.p).Literal), NilNode),
                            assign.p)

parseStatement(p) ==
    CASE curToken(p).Type = "LET" -> parseLetStatement(p)
      [] curToken(p).Type = "RETURN" -> parseReturnStatement(p)
      [] OTHER -> parseExpressionStatement(p)

(***************************************************************************)
(* Token sequences to parse.                                                *)
(***************************************************************************)
Ident(name) == Token("IDENT", <<name>>)

Op(text) == Token(Str(text), text)

Semicolon == Token(";", <<";">>)

\* most operands of a generated expression
MaxOperands == 3

OperandTokens == <<Ident("a"), Ident("b"), Ident("c"), Ident("d"), Ident("e")>>

\* two binary operators of the additive and of the multiplicative level, one
\* of the relational and one of the equality level
BinaryOps ==
    {Op(<<"+">>), Op(<<"-">>), Op(<<"*">>), Op(<<"/">>), Op(<<"<">>),
     Op(<<"=", "=">>)}

\* nothing, - or ! before an operand
PrefixOps == {<<>>, <<Op(<<"-">>)>>, <<Op(<<"!">>)>>}

RECURSIVE ExpressionsOf(_)
\* the expressions of n operands: a, b, ... in this order, each with or
\* without a prefix operator, with any binary operators between them
ExpressionsOf(n) ==
    IF n = 1 THEN {pre \o <<OperandTokens[1]>> : pre \in PrefixOps}
    ELSE {e \o <<op>> \o pre \o <<OperandTokens[n]>> :
            e \in ExpressionsOf(n - 1), op \in BinaryOps, pre \in PrefixOps}

GeneratedExpressions == UNION {ExpressionsOf(n) : n \in 1..MaxOperands}

\* -a * b;  !-a;  a + b - c;  a + b * c + d / e - f;  -1 * 2 + 3;
\* 3 > 5 == false;  5 > 4 == 3 < 4;  5 < 4 != 3 > 4
TestedExpressions ==
    { <<Op(<<"-">>), Ident("a"), Op(<<"*">>), Ident("b")>>,
      <<Op(<<"!">>), Op(<<"-">>), Ident("a")>>,
      <<Ident("a"), Op(<<"+">>), Ident("b"), Op(<<"-">>), Ident("c")>>,
      <<Ident("a"), Op(<<"+">>), Ident("b"), Op(<<"*">>), Ident("c"), Op(<<"+">>),
        Ident("d"), Op(<<"/">>), Ident("e"), Op(<<"-">>), Ident("f")>>,
      <<Op(<<"-">>), Token("INT", <<"1">>), Op(<<"*">>), Token("INT", <<"2">>),
        Op(<<"+">>), Token("INT", <<"3">>)>>,
      <<Token("INT", <<"3">>), Op(<<">">>), Token("INT", <<"5">>), Op(<<"=", "=">>),
        Token("FALSE", <<"f", "a", "l", "s", "e">>)>>,
      <<Token("INT", <<"5">>), Op(<<">">>), Token("INT", <<"4">>), Op(<<"=", "=">>),
        Token("INT", <<"3">>), Op(<<"<">>), Token("INT", <<"4">>)>>,
      <<Token("INT", <<"5">>), Op(<<"<">>), Token("INT", <<"4">>), Op(<<"!", "=">>),
        Token("INT", <<"3">>), Op(<<">">>), Token("INT", <<"4">>)>> }

\* one expression; the tested ones also with a semicolon after them
ExpressionInputs ==
    GeneratedExpressions \cup TestedExpressions
        \cup {e \o <<Semicolon>> : e \in TestedExpressions}

LetToken == Token("LET", <<"l", "e", "t">>)

ReturnToken == Token("RETURN", <<"r", "e", "t", "u", "r", "n">>)

\* let x = 5;   let x = 5   let x 5;   let = 5;   return 5;   return 5
\* 3 + 4; -5 * 5   010   09   999   + a
StatementInputs ==
    { <<LetToken, Ident("x"), Op(<<"=">>), Token("INT", <<"5">>), Semicolon>>,
      <<LetToken, Ident("x"), Op(<<"=">>), Token("INT", <<"5">>)>>,
      <<LetToken, Ident("x"), Token("INT", <<"5">>), Semicolon>>,
      <<LetToken, Op(<<"=">>), Token("INT", <<"5">>), Semicolon>>,
      <<ReturnToken, Token("INT", <<"5">>), Semicolon>>,
      <<ReturnToken, Token("INT", <<"5">>)>>,
      <<Token("INT", <<"3">>), Op(<<"+">>), Token("INT", <<"4">>), Semicolon,
        Op(<<"-">>), Token("INT", <<"5">>), Op(<<"*">>), Token("INT", <<"5">>)>>,
      <<Token("INT", <<"0", "1", "0">>)>>,
      <<Token("INT", <<"0", "9">>)>>,
      <<Token("INT", <<"9", "9", "9">>)>>,
      <<Op(<<"+">>), Ident("a")>>,
      <<>> }

\* let y = true;   let foobar = y;
TestedLetStatements ==
    { <<LetToken, Ident("y"), Op(<<"=">>), Token("TRUE", <<"t", "r", "u", "e">>),
        Semicolon>>,
      <<LetToken, Ident("foobar"), Op(<<"=">>), Ident("y"), Semicolon>> }

\* let x 5; let = 10; let 83;   (TestBadParseAndSucceed, with an integer
\* that fits the modelled word)
ThreeMalformedLets ==
    <<LetToken, Ident("x"), Token("INT", <<"5">>), Semicolon,
      LetToken, Op(<<"=">>), Token("INT", <<"1", "0">>), Semicolon,
      LetToken, Token("INT", <<"8", "3">>), Semicolon>>

ParserInputs ==
    ExpressionInputs \cup StatementInputs \cup TestedLetStatements
        \cup {ThreeMalformedLets}

(***************************************************************************)
(* ParseProgram on a new Parser: one step per iteration of its loop over    *)
(* the statements.  status is "parsing" until ParseProgram returns          *)
(* ("done"), or "diverged" once a statement parser loops for ever.          *)
(***************************************************************************)
ParseInit ==
    /\ \E tokens \in ParserInputs :
          parser = [p |-> NewParser(tokens), statements |-> <<>>,
                    status |-> "parsing"]
    /\ program = <<>>
    /\ pc = 1
    /\ result = nil
    /\ status = "idle"
    /\ out = nil
    /\ st = [heap |-> <<NewEnvironment>>, next |-> 10, log |-> <<>>,
             open |-> <<>>]
    /\ lexer = IdleLexer

\* one iteration of the loop: parseStatement, append, nextToken
parseProgramStatement ==
    /\ parser.status = "parsing"
    /\ ~curTokenIs(parser.p, "EOF")
    /\ LET statement == parseStatement(parser.p)
       IN parser' =
             IF ~statement.back
             THEN [parser EXCEPT !.p = statement.p, !.status = "diverged"]
             ELSE [parser EXCEPT
                     !.p = nextToken(statement.p),
                     !.statements = IF statement.node # NilNode
                                    THEN Append(@, statement.node) ELSE @]
    /\ UNCHANGED <<vars, lexer>>

\* curToken is EOF: return program
parseProgramEnd ==
    /\ parser.status = "parsing"
    /\ curTokenIs(parser.p, "EOF")
    /\ parser' = [parser EXCEPT !.status = "done"]
    /\ UNCHANGED <<vars, lexer>>

ParseNext == parseProgramStatement \/ parseProgramEnd

ParseSpec == ParseInit /\ [][ParseNext]_<<vars, parser, lexer>>

(***************************************************************************)
(* Nesting by precedence (C20).  Nested(t) is the tree the claim gives the  *)
(* expression t: it is split at the last binary operator of the lowest      *)
(* level, so operators of one level nest to the left and a higher level     *)
(* binds first; a prefix operator takes the operand that follows it.  The   *)
(* levels are those of spec section 4.2: equality, relational, additive,    *)
(* multiplicative.                                                          *)
(***************************************************************************)
Level(t) ==
    CASE t.Type \in {"==", "!="} -> 1
      [] t.Type \in {"<", ">"} -> 2
      [] t.Type \in {"+", "-"} -> 3
      [] t.Type \in {"*", "/"} -> 4

IsOperandToken(t) == t.Type \in {"IDENT", "INT", "TRUE", "FALSE"}

\* the positions of the binary operators of t: the operator tokens that
\* follow an operand
BinaryAt(t) ==
    {i \in 2..Len(t) : ~IsOperandToken(t[i]) /\ IsOperandToken(t[i - 1])}

\* the node of an operand token (numbers are written in decimal)
OperandNode(t) ==
    CASE t.Type = "IDENT" -> Identifier(Str(t.Literal))
      [] t.Type = "INT" -> IntegerLiteral(ReadDigits(t.Literal, 10, 0))
      [] t.Type = "TRUE" -> BooleanLiteral(TRUE)
      [] t.Type = "FALSE" -> BooleanLiteral(FALSE)

RECURSIVE Nested(_)
Nested(t) ==
    IF BinaryAt(t) # {}
    THEN LET lowest == Min({Level(t[i]) : i \in BinaryAt(t)})
             at == Max({i \in BinaryAt(t) : Level(t[i]) = lowest})
         IN InfixExpression(Nested(SubSeq(t, 1, at - 1)), Str(t[at].Literal),
                            Nested(SubSeq(t, at + 1, Len(t))))
    ELSE IF Len(t) = 1 THEN OperandNode(t[1])
    ELSE PrefixExpression(Str(t[1].Literal), Nested(Tail(t)))

\* the expression of an input of ExpressionInputs: the tokens before the
\* semicolon
ExpressionOf(tokens) ==
    IF tokens[Len(tokens)].Type = ";" THEN SubSeq(tokens, 1, Len(tokens) - 1)
    ELSE tokens

\* ParseProgram returned the one statement e and no error
ParsedAs(e) ==
    /\ parser.statements = <<ExpressionStatement(e)>>
    /\ parser.p.errors = <<>>

\* a + b * c + d / e - f
SixOperands ==
    <<Ident("a"), Op(<<"+">>), Ident("b"), Op(<<"*">>), Ident("c"), Op(<<"+">>),
      Ident("d"), Op(<<"/">>), Ident("e"), Op(<<"-">>), Ident("f")>>

\* (((a + (b * c)) + (d / e)) - f)
SixOperandsNested ==
    InfixExpression(
        InfixExpression(
            InfixExpression(Identifier("a"), "+",
                            InfixExpression(Identifier("b"), "*", Identifier("c"))),
            "+", InfixExpression(Identifier("d"), "/", Identifier("e"))),
        "-", Identifier("f"))

Unterminated(tokens) ==
    {i \in DOMAIN tokens :
        /\ tokens[i].Type \in {"LET", "RETURN"}
        /\ \A j \in i..Len(tokens) : tokens[j].Type # ";"}

\* C21: ParseProgram terminates and returns a Program for every finite
\* input, also when a let or return statement reaches the end of the input
\* without a semicolon: no statement parser loops for ever, and at the end
\* of the tokens ParseProgram has returned or is about to.
C21_ParseProgramTerminates ==
    /\ parser.status # "diverged"
    /\ curTokenIs(parser.p, "EOF") => parser.status \in {"parsing", "done"}

\* only a let or return statement that no semicolon follows keeps
\* ParseProgram from returning
C21_TerminatesWithSemicolons ==
    /\ parser.status = "diverged" => Unterminated(parser.p.tokens) # {}
    /\ Unterminated(parser.p.tokens) = {} /\ curTokenIs(parser.p, "EOF")
          => parser.status \in {"parsing", "done"}

\* parsing let x = 5 or return 5 has stopped in the loop that looks for the
\* semicolon
C21_Diverged ==
    /\ parser.status = "diverged"
    /\ Len(parser.p.tokens) = 2 \/ Len(parser.p.tokens) = 4

(***************************************************************************)
(* A failed expectPeek (C22).  The let statement at curToken fails at the  *)
(* identifier when the token after let is no identifier, and at the        *)
(* assignment when the token after the identifier is no =.                 *)
(***************************************************************************)
FailsAtIdent(p) == curTokenIs(p, "LET") /\ peekToken(p).Type # "IDENT"

FailsAtAssign(p) ==
    /\ curTokenIs(p, "LET")
    /\ peekToken(p).Type = "IDENT"
    /\ TokenAt(p.tokens, p.cur + 2).Type # "="

\* where curToken is when the expectation fails, what was expected and what
\* was there
FailedExpectation(p) ==
    IF FailsAtIdent(p)
    THEN [cur |-> p.cur, want |-> "IDENT", got |-> peekToken(p).Type]
    ELSE [cur |-> p.cur + 1, want |-> "=",
          got |-> TokenAt(p.tokens, p.cur + 2).Type]

ExpectedMessage(want, got) ==
    "expected next token to be " \o want \o ", got " \o got \o " instead"

IsPrefixOf(s, t) == Len(s) <= Len(t) /\ SubSeq(t, 1, Len(s)) = s

\* one iteration of ParseProgram on a let statement whose expectPeek fails:
\* exactly one message is appended, curToken stays where it was when
\* expectPeek failed until ParseProgram's own nextToken moves one token on,
\* the statement parser returns nil (no LetStatement is built; the one
\* entry that ParseProgram may add to Statements is that nil pointer), and
\* ParseProgram goes on parsing
FailedLetStep ==
    LET failed == FailedExpectation(parser.p)
    IN /\ parser'.p.errors =
             Append(parser.p.errors, ExpectedMessage(failed.want, failed.got))
       /\ parser'.p.cur = failed.cur + 1
       /\ parseStatement(parser.p).node = NilLetStatement
       /\ \A i \in DOMAIN parser'.statements :
             parser'.statements[i] # NilLetStatement
                => i \in DOMAIN parser.statements
       /\ parser'.status = "parsing"

\* C22: a failed expectPeek appends exactly one message "expected next token
\* to be X, got Y instead", consumes no token and makes the statement
\* parser return no node; ParseProgram goes on with the following tokens, so
\* the three malformed let statements give a Program and at least three
\* errors; and the error list only ever grows during a parse.
C22_FailedExpectPeek ==
    /\ [][parser.status = "parsing"
             /\ (FailsAtIdent(parser.p) \/ FailsAtAssign(parser.p))
             => FailedLetStep]_<<vars, parser, lexer>>
    /\ [][IsPrefixOf(parser.p.errors, parser'.p.errors)]_<<vars, parser, lexer>>
    /\ [](parser.p.tokens = ThreeMalformedLets
             => /\ parser.status # "diverged"
                /\ parser.status = "done" => Len(parser.p.errors) >= 3)

\* the three malformed let statements have been parsed: ParseProgram has
\* returned, with the message of each failed expectPeek among the errors
C22_Witness ==
    /\ parser.p.tokens = ThreeMalformedLets
    /\ parser.status = "done"
    /\ \E i, j, k \in DOMAIN parser.p.errors :
          /\ i < j /\ j < k
          /\ parser.p.errors[i] = ExpectedMessage("=", "INT")
          /\ parser.p.errors[j] = ExpectedMessage("IDENT", "=")
          /\ parser.p.errors[k] = ExpectedMessage("IDENT", "INT")

(***************************************************************************)
(* let <ident> = <expr>; (C23).                                            *)
(***************************************************************************)
\* the token sequences let <ident> = <expr> ; of one expression token
IsLetInput(tokens) ==
    /\ Len(tokens) = 5
    /\ tokens[1].Type = "LET"
    /\ tokens[2].Type = "IDENT"
    /\ tokens[3].Type = "="
    /\ tokens[4].Type \in {"INT", "TRUE", "FALSE", "IDENT"}
    /\ tokens[5].Type = ";"

\* the expression that the tokens from the fourth on are
ValueOf(tokens) ==
    parseExpression([tokens |-> tokens, cur |-> 4, errors |-> <<>>], LOWEST).node

\* C23: parsing let <ident> = <expr>; yields exactly one LetStatement whose
\* Name is the identifier and whose Value is the parsed expression, with no
\* parser error.
C23_LetStatement ==
    parser.status = "done" /\ IsLetInput(parser.p.tokens)
       => /\ parser.p.errors = <<>>
          /\ parser.statements =
                <<LetStatement(Str(parser.p.tokens[2].Literal),
                               ValueOf(parser.p.tokens))>>

\* what parseLetStatement builds: one LetStatement with the Name and with
\* no Value at all, the tokens up to the semicolon having been skipped
C23_LetStatementWithoutValue ==
    parser.status = "done" /\ IsLetInput(parser.p.tokens)
       => /\ parser.p.errors = <<>>
          /\ parser.statements =
                <<LetStatement(Str(parser.p.tokens[2].Literal), NilNode)>>
          /\ ValueOf(parser.p.tokens) # NilNode

\* let foobar = y; has been parsed
C23_Parsed ==
    /\ parser.status = "done"
    /\ IsLetInput(parser.p.tokens)
    /\ parser.p.tokens[2].Literal = <<"foobar">>

(***************************************************************************)
(* The lexer (package lexer).  A byte is a string of one character, NUL    *)
(* the byte 0; input is the sequence of the bytes of the string, so        *)
(* l.input[i] of the code is input[i + 1] here.                            *)
(***************************************************************************)
LowerCase ==
    {"a", "b", "c", "d", "e", "f", "g", "h", "i", "j", "k", "l", "m",
     "n", "o", "p", "q", "r", "s", "t", "u", "v", "w", "x", "y", "z"}

UpperCase ==
    {"A", "B", "C", "D", "E", "F", "G", "H", "I", "J", "K", "L", "M",
     "N", "O", "P", "Q", "R", "S", "T", "U", "V", "W", "X", "Y", "Z"}

isLetter(ch) == ch \in LowerCase \/ ch \in UpperCase \/ ch = "_"

isDigit(ch) == IsDigitChar(ch)

readChar(l) ==
    [l EXCEPT !.ch = IF l.readPosition >= Len(l.input) THEN NUL
                     ELSE l.input[l.readPosition + 1],
              !.position = l.readPosition,
              !.readPosition = l.readPosition + 1]

NewLexer(input) ==
    readChar([input |-> input, position |-> 0, readPosition |-> 0, ch |-> NUL])

peekChar(l) ==
    IF l.readPosition >= Len(l.input) THEN NUL ELSE l.input[l.readPosition + 1]

\* input[from:to]
Slice(input, from, to) == SubSeq(input, from + 1, to)

RECURSIVE skipLetters(_)
\* for isLetter(l.ch) { l.readChar() }
skipLetters(l) == IF isLetter(l.ch) THEN skipLetters(readChar(l)) ELSE l

RECURSIVE skipDigits(_)
\* for isDigit(l.ch) { l.readChar() }
skipDigits(l) == IF isDigit(l.ch) THEN skipDigits(readChar(l)) ELSE l

WhiteSpace == {" ", "\t", "\n", "\r"}

RECURSIVE skipWhiteSpace(_)
skipWhiteSpace(l) ==
    IF l.ch \in WhiteSpace THEN skipWhiteSpace(readChar(l)) ELSE l

\* (the identifier, Lexer after it)
readIdentifier(l) ==
    LET after == skipLetters(l)
    IN [literal |-> Slice(l.input, l.position, after.position), l |-> after]

\* a readNumber that takes every '.' after the digits into the number
readNumber_NoLookahead(l) ==
    LET digits == skipDigits(l)
        fraction == skipDigits(readChar(digits))
    IN IF digits.ch = "."
       THEN [literal |-> Slice(l.input, l.position, fraction.position),
             type |-> "FLOAT", l |-> fraction]
       ELSE [literal |-> Slice(l.input, l.position, digits.position),
             type |-> "INT", l |-> digits]

\* (the number, INT or FLOAT, Lexer after it)
readNumber(l) ==
    LET digits == skipDigits(l)
        fraction == skipDigits(readChar(digits))
    IN IF digits.ch = "." /\ isDigit(peekChar(digits))
       THEN [literal |-> Slice(l.input, l.position, fraction.position),
             type |-> "FLOAT", l |-> fraction]
       ELSE [literal |-> Slice(l.input, l.position, digits.position),
             type |-> "INT", l |-> digits]

keywords ==
    ("fn" :> "FUNCTION") @@ ("let" :> "LET") @@ ("true" :> "TRUE")
        @@ ("false" :> "FALSE") @@ ("if" :> "IF") @@ ("else" :> "ELSE")
        @@ ("return" :> "RETURN")

LookupIdentifier(identifier) ==
    IF identifier \in DOMAIN keywords THEN keywords[identifier] ELSE "IDENT"

newToken(tokenType, ch) == Token(tokenType, <<ch>>)

\* the token types of the cases of NextToken that make a token of the one
\* byte l.ch; RBRACE is "{" in package token, and MOD, which the source
\* files of package token do not declare, is taken to be "%"
oneByteTokens ==
    (";" :> ";") @@ ("(" :> "(") @@ (")" :> ")") @@ ("," :> ",")
        @@ ("+" :> "+") @@ ("{" :> "{") @@ ("}" :> "{") @@ ("-" :> "-")
        @@ ("/" :> "/") @@ ("%" :> "%") @@ ("*" :> "*") @@ ("<" :> "<")
        @@ (">" :> ">")

\* (the token, Lexer after it)
NextToken(l0) ==
    LET l == skipWhiteSpace(l0)
        two == readChar(l)
        identifier == readIdentifier(l)
        number == readNumber(l)
    IN CASE l.ch \in {"=", "!"} /\ peekChar(l) = "="
              -> [token |-> Token(Str(<<l.ch, two.ch>>), <<l.ch, two.ch>>),
                  l |-> readChar(two)]
         [] l.ch \in {"=", "!"} /\ peekChar(l) # "="
              -> [token |-> newToken(l.ch, l.ch), l |-> readChar(l)]
         [] l.ch \in DOMAIN oneByteTokens
              -> [token |-> newToken(oneByteTokens[l.ch], l.ch),
                  l |-> readChar(l)]
         [] l.ch = NUL -> [token |-> Token("EOF", <<>>), l |-> readChar(l)]
         [] isLetter(l.ch)
              -> [token |-> Token(LookupIdentifier(Str(identifier.literal)),
                                  identifier.literal),
                  l |-> identifier.l]
         [] isDigit(l.ch)
              -> [token |-> Token(number.type, number.literal), l |-> number.l]
         [] OTHER -> [token |-> newToken("ILLEGAL", l.ch), l |-> readChar(l)]

(***************************************************************************)
(* Strings to lex.                                                         *)
(***************************************************************************)
\* longest generated input
MaxInputLen == 3

\* a digit, the point, a letter, a blank, the first byte of a token of two
\* bytes, and the byte 0
LexAlphabet == {"7", ".", "x", " ", "=", NUL}

GeneratedInputs == UNION {[1..n -> LexAlphabet] : n \in 0..MaxInputLen}

\* the input of TestIfElifElseTokens
IfElifElseInput ==
    <<"\n", " ", " ", "i", "f", " ", "(", "5", " ", "<", " ", "1", "0",
      ")", " ", "{", "\n", " ", " ", " ", " ", "r", "e", "t", "u", "r",
      "n", " ", "t", "r", "u", "e", ";", "\n", " ", " ", "}", " ", "e",
      "l", "s", "e", " ", "i", "f", " ", "(", "6", " ", "<", " ", "1", "0",
      ")", " ", "{", "\n", " ", " ", " ", " ", "r", "e", "t", "u", "r",
      "n", " ", "t", "r", "u", "e", ";", "\n", " ", " ", "}", " ", "e",
      "l", "s", "e", " ", "{", "\n", " ", " ", " ", " ", "r", "e", "t",
      "u", "r", "n", " ", "f", "a", "l", "s", "e", ";", "\n", " ", " ",
      "}", "\n", " ", " ">>

\* the input of TestReadInFloatAndInteger
FloatAndIntegerInput ==
    <<"l", "e", "t", " ", "f", "l", " ", "=", " ", "1", ".", "2", "3", "4",
      ";", "\n", " ", " ", "l", "e", "t", " ", "i", "n", "t", "e", "g",
      "e", "r", " ", "=", " ", "1", "2", "3", "4", ";", "\n", " ", " ">>

\* 1.2.3   12.x   1.   else if   else {   != %
NumberInputs ==
    { <<"1", ".", "2", ".", "3">>,
      <<"1", "2", ".", "x">>,
      <<"1", ".">>,
      <<"e", "l", "s", "e", " ", "i", "f">>,
      <<"e", "l", "s", "e", " ", "{">>,
      <<"!", "=", " ", "%">> }

LexerInputs ==
    GeneratedInputs \cup NumberInputs
        \cup {IfElifElseInput, FloatAndIntegerInput}

(***************************************************************************)
(* NextToken called again and again on a new Lexer.  The calls go on after *)
(* an EOF token, up to MaxEOFs EOF tokens.                                 *)
(***************************************************************************)
\* EOF tokens after which NextToken is no longer called
MaxEOFs == 2

EOFs(tokens) == Cardinality({i \in DOMAIN tokens : tokens[i].Type = "EOF"})

LexInit ==
    /\ \E input \in LexerInputs :
          lexer = [l |-> NewLexer(input), tokens |-> <<>>, positions |-> <<>>,
                   status |-> "lexing"]
    /\ parser = IdleParser
    /\ program = <<>>
    /\ pc = 1
    /\ result = nil
    /\ status = "idle"
    /\ out = nil
    /\ st = [heap |-> <<NewEnvironment>>, next |-> 10, log |-> <<>>,
             open |-> <<>>]

\* one call of NextToken
NextTokenCall ==
    /\ lexer.status = "lexing"
    /\ EOFs(lexer.tokens) < MaxEOFs
    /\ LET next == NextToken(lexer.l)
       IN lexer' = [lexer EXCEPT !.l = next.l,
                                 !.tokens = Append(@, next.token),
                                 !.positions = Append(@, next.l.position)]
    /\ UNCHANGED <<vars, parser>>

LexNext == NextTokenCall

LexSpec == LexInit /\ [][LexNext]_<<vars, parser, lexer>>

(***************************************************************************)
(* The token sequence is finite (C24).  l.position counts the bytes taken  *)
(* from the input: it is 0 on a new Lexer and lexer.positions[i] after the *)
(* i-th call of NextToken; a call that returns EOF at the end of the input *)
(* leaves it beyond the length of the input.                               *)
(***************************************************************************)
PositionBefore(i) == IF i = 1 THEN 0 ELSE lexer.positions[i - 1]

\* the i-th call consumed at least one byte if its token is not EOF, and its
\* EOF token came after the whole input
ConsumesOrEnds(i) ==
    IF lexer.tokens[i].Type # "EOF" THEN lexer.positions[i] > PositionBefore(i)
    ELSE lexer.positions[i] > Len(lexer.l.input)

\* after an EOF token every later token is EOF
EOFForEver ==
    \A i, j \in DOMAIN lexer.tokens :
       i < j /\ lexer.tokens[i].Type = "EOF" => lexer.tokens[j].Type = "EOF"

\* an input of n bytes gives EOF in at most n + 1 calls
EOFInTime == Len(lexer.tokens) > Len(lexer.l.input) => EOFs(lexer.tokens) >= 1

\* C24: for every finite input, each NextToken call that returns a non-EOF
\* token consumes at least one byte, EOF is returned after finitely many
\* calls and only once the whole input has been consumed, and after EOF
\* every later call returns EOF.
C24_FiniteTokenSequence ==
    /\ \A i \in DOMAIN lexer.tokens : ConsumesOrEnds(i)
    /\ EOFInTime
    /\ EOFForEver

HasNUL(input) == \E i \in DOMAIN input : input[i] = NUL

\* the same of every input that holds no byte 0
C24_FiniteWithoutNUL == ~HasNUL(lexer.l.input) => C24_FiniteTokenSequence

\* in every case a token that is not EOF consumed a byte, and EOF comes in
\* time
C24_Progress ==
    /\ \A i \in DOMAIN lexer.tokens :
          lexer.tokens[i].Type # "EOF" => lexer.positions[i] > PositionBefore(i)
    /\ EOFInTime

\* a token follows an EOF token that came before the end of the input
C24_TokenAfterEOF ==
    \E i \in DOMAIN lexer.tokens :
       /\ i > 1
       /\ lexer.tokens[i - 1].Type = "EOF"
       /\ lexer.tokens[i].Type # "EOF"
       /\ lexer.positions[i - 1] <= Len(lexer.l.input)

(***************************************************************************)
(* Numbers (C25).  Indices of input count from 1: the byte at position p   *)
(* of the code is input[p + 1].                                            *)
(***************************************************************************)
\* the index after the longest run from index i on of bytes in the set
RunEnd(input, i, bytes) ==
    CHOOSE j \in i..(Len(input) + 1) :
       /\ \A k \in i..(j - 1) : input[k] \in bytes
       /\ j = Len(input) + 1 \/ input[j] \notin bytes

Digits == {DigitChars[i] : i \in DOMAIN DigitChars}

\* the index at which the token of the i-th call begins, after the white
\* space
TokenStart(i) ==
    RunEnd(lexer.l.input, PositionBefore(i) + 1, WhiteSpace)

\* the i-th call of NextToken finds a digit
AtNumber(i) ==
    /\ PositionBefore(i) < Len(lexer.l.input)
    /\ TokenStart(i) <= Len(lexer.l.input)
    /\ lexer.l.input[TokenStart(i)] \in Digits

\* the token of the i-th call is the one of this type whose literal is
\* input[from..to], and the next byte to lex is the one after it
TokenIs(i, type, from, to) ==
    /\ lexer.tokens[i] = Token(type, SubSeq(lexer.l.input, from, to))
    /\ lexer.positions[i] = to

\* digits '.' digits is one FLOAT token; digits with no '.' and a digit
\* after them are an INT token, and the '.' is left
GreedyNumber(i) ==
    LET input == lexer.l.input
        point == RunEnd(input, TokenStart(i), Digits)
        fraction == point < Len(input) /\ input[point] = "."
                       /\ input[point + 1] \in Digits
    IN IF fraction
       THEN TokenIs(i, "FLOAT", TokenStart(i),
                    RunEnd(input, point + 1, Digits) - 1)
       ELSE TokenIs(i, "INT", TokenStart(i), point - 1)

OneTwoThree == <<"1", ".", "2", ".", "3">>

\* C25 (as stated): number scanning is greedy and never backtracks, and
\* 1.2.3 lexes as FLOAT 1.2 followed by an ILLEGAL token for the text .3.
C25_GreedyNumbers ==
    /\ \A i \in DOMAIN lexer.tokens : AtNumber(i) => GreedyNumber(i)
    /\ lexer.l.input = OneTwoThree /\ Len(lexer.tokens) >= 2
          => /\ lexer.tokens[1] = Token("FLOAT", <<"1", ".", "2">>)
             /\ lexer.tokens[2] = Token("ILLEGAL", <<".", "3">>)

\* C25 (amended): number scanning is greedy and never backtracks, and 1.2.3
\* lexes as FLOAT 1.2, an ILLEGAL token for the second point alone, and
\* INT 3.
C25_GreedyNumbersPointAlone ==
    /\ \A i \in DOMAIN lexer.tokens : AtNumber(i) => GreedyNumber(i)
    /\ lexer.l.input = OneTwoThree /\ Len(lexer.tokens) >= 3
          => /\ lexer.tokens[1] = Token("FLOAT", <<"1", ".", "2">>)
             /\ lexer.tokens[2] = Token("ILLEGAL", <<".">>)
             /\ lexer.tokens[3] = Token("INT", <<"3">>)

\* 1.2.3 has been lexed up to its end: the first call found a number with a
\* fraction, the third one without
C25_Witness ==
    /\ lexer.l.input = OneTwoThree
    /\ Len(lexer.tokens) = 4
    /\ lexer.tokens[4].Type = "EOF"
    /\ AtNumber(1) /\ lexer.tokens[1].Type = "FLOAT"
    /\ AtNumber(3) /\ lexer.tokens[3].Type = "INT"

(***************************************************************************)
(* else if (C26).                                                           *)
(***************************************************************************)
\* the bytes of input from index i on begin with the bytes of text
BeginsWith(input, i, text) ==
    /\ i + Len(text) - 1 <= Len(input)
    /\ SubSeq(input, i, i + Len(text) - 1) = text

\* the index after the white space that follows the word else at index i
AfterElse(input, i) == RunEnd(input, i + 4, WhiteSpace)

\* the i-th call of NextToken finds the word else, white space and the word
\* if
AtElseIf(i) ==
    LET input == lexer.l.input
        if == AfterElse(input, TokenStart(i))
    IN /\ PositionBefore(i) < Len(input)
       /\ BeginsWith(input, TokenStart(i), <<"e", "l", "s", "e">>)
       /\ if > TokenStart(i) + 4
       /\ BeginsWith(input, if, <<"i", "f">>)
       /\ RunEnd(input, if, LowerCase \cup UpperCase \cup {"_"}) = if + 2

\* the i-th call of NextToken finds the word else and, after white space or
\* none, a brace
AtPlainElse(i) ==
    LET input == lexer.l.input
    IN /\ PositionBefore(i) < Len(input)
       /\ BeginsWith(input, TokenStart(i), <<"e", "l", "s", "e">>)
       /\ BeginsWith(input, AfterElse(input, TokenStart(i)), <<"{">>)

\* C26: else, white space and if are one ELSEIF token with the literal
\* "else if", and a plain else (followed by a brace) is an ELSE token.
C26_ElseIfToken ==
    \A i \in DOMAIN lexer.tokens :
       /\ AtElseIf(i)
             => lexer.tokens[i] =
                   Token("ELSEIF", <<"e", "l", "s", "e", " ", "i", "f">>)
       /\ AtPlainElse(i)
             => lexer.tokens[i] = Token("ELSE", <<"e", "l", "s", "e">>)

\* what NextToken returns: an ELSE token in both cases, and an IF token for
\* the word if in the call after it
C26_ElseThenIf ==
    \A i \in DOMAIN lexer.tokens :
       /\ AtElseIf(i) \/ AtPlainElse(i)
             => lexer.tokens[i] = Token("ELSE", <<"e", "l", "s", "e">>)
       /\ AtElseIf(i) /\ i < Len(lexer.tokens)
             => lexer.tokens[i + 1] = Token("IF", <<"i", "f">>)

\* the input of TestIfElifElseTokens has been lexed up to its end: the
\* twelfth call found else if, a later one a plain else
C26_Lexed ==
    /\ lexer.l.input = IfElifElseInput
    /\ lexer.tokens # <<>>
    /\ lexer.tokens[Len(lexer.tokens)].Type = "EOF"
    /\ AtElseIf(12)
    /\ \E i \in DOMAIN lexer.tokens : AtPlainElse(i)

(***************************************************************************)
(* Integer division by zero (C27).                                         *)
(***************************************************************************)
\* an Integer literal, or its negation, divided by the literal 0
IsDivisionByZero(e) ==
    /\ e.kind = "InfixExpression"
    /\ e.Operator \in {"/", "%"}
    /\ IsArithmetic(e.Left)
    /\ e.Left.kind # "InfixExpression"
    /\ e.Right = IntLit(0)

\* Eval has been called on a division by zero
DividedByZero == \E j \in DOMAIN Log : IsEnter(j) /\ IsDivisionByZero(Log[j].node)

\* C27: evaluating Integer a / 0 or a % 0 does not crash the evaluator: Eval
\* returns an Error, which stops the enclosing block and the program.
C27_DivisionByZeroIsAnError ==
    DividedByZero => /\ status # "panicked"
                     /\ status = "returned" => isError(out)

\* what happens: the division panics in the host, and no statement after it
\* is evaluated
C27_DivisionByZeroPanics ==
    DividedByZero
       => /\ status = "panicked"
          /\ out = Panic("runtime error: integer divide by zero")
          /\ pc = 1
          /\ \A j \in DOMAIN Log : IsEnter(j) => Log[j].node # IntLit(5)

\* 7 % 0 has been evaluated in the body of a called function
C27_Divided ==
    /\ DividedByZero
    /\ program[1].Expression.kind = "CallExpression"
    /\ status # "running"

(***************************************************************************)
(* Calls with another number of arguments than parameters (C28).           *)
(***************************************************************************)
\* the parameters and the arguments of the call of an ArityMismatchProgram
ParametersOf(p) == Len(p[1].Value.Parameters)

ArgumentsOf(p) == Len(p[2].Expression.Arguments)

\* C28: calling a user-defined function with a number of arguments other
\* than its number of parameters never crashes the evaluator: with fewer
\* arguments as with more, Eval returns a value and the evaluation of the
\* program goes on or stops in the ordinary way.
C28_ArityMismatchNeverCrashes ==
    program \in ArityMismatchPrograms
       => /\ status # "panicked"
          /\ status = "returned" => ~isPanic(out)

\* with more arguments than parameters the call gives the value of the body
\* and the program goes on; with fewer it panics in extendFunctionEnv and
\* nothing goes on
C28_MoreIsFineFewerPanics ==
    program \in ArityMismatchPrograms /\ (pc > 2 \/ status # "running")
       => IF ArgumentsOf(program) > ParametersOf(program)
          THEN /\ status # "panicked"
               /\ pc = 3 => result = Integer(IF ParametersOf(program) = 0
                                             THEN 7 ELSE 1)
               /\ status = "returned" => out = Integer(5)
          ELSE /\ status = "panicked"
               /\ out = Panic("runtime error: index out of range")
               /\ pc = 2

\* a function of two parameters has been called with one argument
C28_CalledWithFewer ==
    /\ program = ArityMismatchProgram(2, 1)
    /\ status # "running"

(***************************************************************************)
(* Functions and blocks that produce no value (C29).                       *)
(***************************************************************************)
NoValueExits == {j \in Exits : Log[j].node \in NoValueExprs}

\* C29: a call of a function whose body produces no value evaluates to the
\* NULL singleton, and so does an if expression whose taken block produces
\* no value; the result can be the operand of a prefix or infix operator
\* without crashing the evaluator.
C29_NoValueIsNull ==
    /\ \A j \in NoValueExits : SameObject(Log[j].val, NULL)
    /\ program \in NoValuePrograms => status # "panicked"

\* the operators that an operand without a value crashes: -, and every
\* infix operator but == and != with a left operand that is no number
\* and no string
Crashes(u) ==
    \/ u.kind = "PrefixExpression" /\ u.Operator = "-"
    \/ u.kind = "InfixExpression"
          /\ (u.Operator = "+" \/ u.Left \in NoValueExprs)

\* what happens: the value is Go's nil, not NULL; ! makes FALSE of it,
\* true != compares it with TRUE, and the other operators crash on it
C29_NoValueIsNil ==
    /\ \A j \in NoValueExits : isNil(Log[j].val)
    /\ program \in NoValuePrograms /\ (pc > 1 \/ status # "running")
          => LET u == program[1].Expression
             IN IF Crashes(u)
                THEN /\ status = "panicked"
                     /\ out = Panic("runtime error: nil pointer dereference")
                ELSE /\ status # "panicked"
                     /\ u.kind = "PrefixExpression" /\ pc = 2 => result = FALSE_
                     /\ u.kind = "InfixExpression" /\ pc = 2
                           => result = TRUE_

\* -fn() { let x = 1; }() has been evaluated
C29_NegatedNoValue ==
    /\ program = <<ES(Neg(Call(Fn(<<>>, <<LetOne>>), <<>>))), ES(IntLit(5))>>
    /\ status # "running"
    /\ NoValueExits # {}

(***************************************************************************)
(* An Error in a condition of an if expression (C30).                      *)
(***************************************************************************)
\* the i-th condition evaluated by the if expression of exit j is an Error
ErrorAt(j, i) == isError(Log[Nth(ConditionExits(j), i)].val)

\* the if expression of exit j has the Error of its i-th condition as its
\* value, and evaluated no block and no later condition
StopsAt(j, i) ==
    /\ Log[j].val = Log[Nth(ConditionExits(j), i)].val
    /\ BlockExits(j) = {}
    /\ Cardinality(ConditionExits(j)) = i

\* C30: if an else-if condition evaluates to an Error, the if expression
\* evaluates to that Error, and neither the consequence of that clause nor
\* any later clause or the else block is evaluated, as for an Error in the
\* leading condition.
C30_ElseIfErrorStops ==
    \A j \in IfExits :
       \A i \in 2..Cardinality(ConditionExits(j)) : ErrorAt(j, i) => StopsAt(j, i)

\* what happens: an Error in the leading condition stops the if expression,
\* an Error in an else-if condition counts as truthy: the consequence of
\* that clause is evaluated and gives the value, and nothing after it is
\* evaluated
C30_OnlyLeadingErrorStops ==
    \A j \in IfExits :
       /\ ErrorAt(j, 1) => StopsAt(j, 1)
       /\ \A i \in 2..Cardinality(ConditionExits(j)) :
             ErrorAt(j, i)
                => /\ Cardinality(ConditionExits(j)) = i
                   /\ \E b \in BlockExits(j) :
                         /\ BlockExits(j) = {b}
                         /\ Log[b].node = ConsequencesOf(Log[j].node)[i]
                         /\ Log[j].val = Log[b].val

\* if (false) { 10 } else if (foobar) { 11 } else { 20 } has been evaluated
C30_ElseIfError ==
    /\ program = IfProgram(<<Bool(FALSE), Id("foobar")>>, TRUE)
    /\ status # "running"
    /\ \E j \in IfExits : ErrorAt(j, 2)

====
